---------------------------- MODULE Spec2Model ----------------------------
(***************************************************************************)
(* The Gatekeeper core of crates/phactory/src/system/gk.rs as a state      *)
(* machine: the per-block message processor, the per-worker liveness       *)
(* tracking, the tokenomic update rules, the randomness beacon and the     *)
(* facade operations.                                                      *)
(*                                                                         *)
(* FixedPoint (U64F64 in the source) is modelled as an unsigned fixed      *)
(* point number with FracBits fractional and IntBits integer bits, held as *)
(* its raw bit pattern (a natural below Modulus).  The operations keep the *)
(* source's behaviour: products and quotients truncate, and a result that  *)
(* does not fit panics when the build checks overflow and wraps modulo     *)
(* Modulus when it does not.                                               *)
(***************************************************************************)
EXTENDS Integers, Sequences, FiniteSets, TLC

VARIABLES
    master_pubkey_on_chain,   \* Gatekeeper.master_pubkey_on_chain
    registered_on_chain,      \* Gatekeeper.registered_on_chain
    egress_dummy,             \* the dummy flag of Gatekeeper.egress
    egress,                   \* messages handed to egress.push_message by the latest call
    mining_events,            \* inbox of (origin, MiningReportEvent)
    system_events,            \* inbox of (origin, SystemEvent)
    gatekeeper_events,        \* inbox of (origin, GatekeeperEvent)
    workers,                  \* Gatekeeper.workers: pubkey -> WorkerInfo
    last_random_number,       \* Gatekeeper.last_random_number
    iv_seq,                   \* Gatekeeper.iv_seq
    tokenomic_params,         \* Gatekeeper.tokenomic_params
    overflow_checks,          \* whether the build panics on arithmetic overflow
    panicked,                 \* the process has aborted (panic!)
    last_call,                \* the latest facade call and its block argument
    budget                    \* how many calls / dispatches the environment has made

vars == << master_pubkey_on_chain, registered_on_chain, egress_dummy, egress,
           mining_events, system_events, gatekeeper_events, workers,
           last_random_number, iv_seq, tokenomic_params, overflow_checks,
           panicked, last_call, budget >>

-----------------------------------------------------------------------------
(* Bounds of the model *)

\* Block numbers handed to process_messages / emit_random_number are 1..MaxBlock.
MaxBlock == 13
\* At most MaxCalls calls of the facade in a run.
MaxCalls == 3
\* At most MaxMsgs messages are dispatched in a run.
MaxMsgs == 3
\* At most MaxInbox messages wait in one inbox.
MaxInbox == 2
\* The same three bounds of the specification MiningSpec.
MiningMaxCalls == 3
MiningMaxMsgs == 5
MiningMaxInbox == 3
\* LiveSpec: the messages dispatched and the length of an inbox.
LiveMaxMsgs == 4
LiveMaxInbox == 3
\* LiveSpec: the highest block number processed.
LiveMaxBlock == 14
\* RoundSpec: the calls of the facade and the events delivered.
RoundMaxCalls == 3
RoundMaxMsgs == 3
RoundMaxInbox == 3
\* The bound of the specification TokenomicSpec: calls of the methods of
\* TokenomicInfo on one record.
TokenomicMaxCalls == 2
\* The bounds of the specification ParamsSpec: calls of process_messages
\* and messages dispatched.
ParamsMaxCalls == 3
ParamsMaxMsgs == 4
\* The bounds of the specification PairSpec: calls of process_messages,
\* messages dispatched and messages pending in one inbox.
PairMaxCalls == 4
PairMaxMsgs == 7
PairMaxInbox == 3
\* The bounds of the specification CapSpec: calls of process_messages and
\* messages dispatched.
CapMaxCalls == 3
CapMaxMsgs == 5
\* The bounds of the specification ShareSpec: calls of process_messages,
\* messages dispatched and messages pending in one inbox.
ShareMaxCalls == 3
ShareMaxMsgs == 8
ShareMaxInbox == 3
\* The bounds of the specification FacadeSpec: calls of the facade and
\* events dispatched.
FacadeMaxCalls == 4
FacadeMaxMsgs == 2

-----------------------------------------------------------------------------
(* FixedPoint *)

FracBits == 6
IntBits == 18
RECURSIVE Pow2(_)
Pow2(n) == IF n = 0 THEN 1 ELSE 2 * Pow2(n - 1)
Scale == Pow2(FracBits)
Modulus == Pow2(FracBits + IntBits)
HalfBits == (FracBits + IntBits) \div 2
Half == Pow2(HalfBits)

\* The value of an operation that panicked.
Panic == -1

IsPanic(x) == x = Panic

\* A result r >= 0 that may not fit: panic or wrap.
Fit(r) ==
    IF r < Modulus THEN r
    ELSE IF overflow_checks THEN Panic ELSE r % Modulus

\* fp!(n) for a natural n that fits.
Fp(n) == n * Scale
Zero == 0
One == Scale

FromNum(n) ==
    IF IsPanic(n) THEN Panic
    ELSE IF n < Pow2(IntBits) THEN n * Scale
    ELSE IF overflow_checks THEN Panic ELSE (n % Pow2(IntBits)) * Scale

FAdd(a, b) ==
    IF IsPanic(a) \/ IsPanic(b) THEN Panic ELSE Fit(a + b)

FSub(a, b) ==
    IF IsPanic(a) \/ IsPanic(b) THEN Panic
    ELSE IF a >= b THEN a - b
    ELSE IF overflow_checks THEN Panic ELSE a - b + Modulus

\* floor(a * b / Scale) modulo Modulus, computed in halves so that no
\* intermediate product leaves the 32-bit integers of TLC.
WideMulHalves(ah, al, bh, bl) ==
    ( ((ah * bh) % (Modulus \div ((Half * Half) \div Scale))) * ((Half * Half) \div Scale)
      + ((ah * bl + al * bh) % (Modulus \div (Half \div Scale))) * (Half \div Scale)
      + (al * bl) \div Scale ) % Modulus

WideMulWrapped(a, b) == WideMulHalves(a \div Half, a % Half, b \div Half, b % Half)

FMul(a, b) ==
    IF IsPanic(a) \/ IsPanic(b) THEN Panic
    ELSE IF a = 0 \/ b = 0 THEN 0
    ELSE IF b <= (Modulus * Scale - 1) \div a THEN (a * b) \div Scale
    ELSE IF overflow_checks THEN Panic ELSE WideMulWrapped(a, b)

\* Division by zero panics in every build.
FDiv(a, b) ==
    IF IsPanic(a) \/ IsPanic(b) THEN Panic
    ELSE IF b = 0 THEN Panic
    ELSE Fit((a * Scale) \div b)

\* FixedPoint * integer and FixedPoint / integer.
FMulInt(a, n) ==
    IF IsPanic(a) THEN Panic ELSE Fit(a * n)

FDivInt(a, n) ==
    IF IsPanic(a) THEN Panic ELSE a \div n

FMin(a, b) ==
    IF IsPanic(a) \/ IsPanic(b) THEN Panic ELSE IF a <= b THEN a ELSE b

FMax(a, b) ==
    IF IsPanic(a) \/ IsPanic(b) THEN Panic ELSE IF a >= b THEN a ELSE b

\* floor(sqrt(n)) by bisection on lo <= sqrt(n) < hi.
RECURSIVE ISqrt(_, _, _)
ISqrt(n, lo, hi) ==
    IF hi - lo <= 1 THEN lo
    ELSE IF ((lo + hi) \div 2) * ((lo + hi) \div 2) <= n
         THEN ISqrt(n, (lo + hi) \div 2, hi)
         ELSE ISqrt(n, lo, (lo + hi) \div 2)

\* FixedSqrt::sqrt: the raw pattern of floor(sqrt(a / Scale) * Scale).
FSqrt(a) ==
    IF IsPanic(a) THEN Panic ELSE ISqrt(a * Scale, 0, Pow2((IntBits + 2 * FracBits + 1) \div 2))

-----------------------------------------------------------------------------
(* mod tokenomic *)

square(v) == FMul(v, v)

\* fp!(0.8), fp!(0.7) and fp!(1.2), rounded to the nearest representable value.
FpTenths(n) == (n * Scale + 5) \div 10

conf_score(level) ==
    IF level \in {1, 2, 3, 128} THEN One
    ELSE IF level = 4 THEN FpTenths(8)
    ELSE IF level = 5 THEN FpTenths(7)
    ELSE Zero

\* TokenomicInfo::default()
DefaultTokenomicInfo ==
    [ v |-> Zero, v_init |-> Zero, payable |-> Zero,
      v_update_at |-> 0, v_update_block |-> 0,
      iteration_last |-> 0, challenge_time_last |-> 0,
      p_bench |-> Zero, p_instant |-> Zero, confidence_level |-> 0,
      last_payout |-> Zero, last_payout_at_block |-> 0,
      total_payout |-> Zero, total_payout_count |-> 0,
      last_slash |-> Zero, last_slash_at_block |-> 0,
      total_slash |-> Zero, total_slash_count |-> 0 ]

\* A TokenomicInfo one of whose computations panicked.
TokenomicPanicked(t) ==
    \/ IsPanic(t.v) \/ IsPanic(t.payable) \/ IsPanic(t.p_instant)
    \/ IsPanic(t.total_payout) \/ IsPanic(t.total_slash)
    \/ IsPanic(t.last_payout) \/ IsPanic(t.last_slash)

\* tokenomic::test_params(), at the resolution of the model: the rates that
\* lie below one unit of the last place are one unit, v_max is Fp(30).
test_params ==
    [ rho |-> One + 1,
      slash_rate |-> 1,
      budget_per_block |-> Fp(100),
      v_max |-> Fp(30),
      cost_k |-> 1,
      cost_b |-> 1,
      treasury_ration |-> FpTenths(2),
      payout_ration |-> FpTenths(8),
      heartbeat_window |-> 10 ]

\* impl From<TokenomicParameters> for Params
ParamsFrom(params) ==
    LET treasury_ration == params.treasury_ratio
        payout_ration == FSub(One, params.treasury_ratio)
    IN  [ rho |-> params.rho,
          slash_rate |-> params.slash_rate,
          budget_per_block |-> params.budget_per_block,
          v_max |-> params.v_max,
          cost_k |-> params.cost_k,
          cost_b |-> params.cost_b,
          treasury_ration |-> treasury_ration,
          payout_ration |-> payout_ration,
          heartbeat_window |-> params.heartbeat_window ]

\* TokenomicInfo::share
share(t) ==
    FSqrt(FAdd(square(t.v),
               square(FMul(FMul(Fp(2), t.p_instant), conf_score(t.confidence_level)))))

\* The operators below take the intermediate values of the source (delta_v,
\* budget, to_payout, ...) as parameters, each computed once.

\* update_v_idle: delta_v
idle_delta_v(t, params) ==
    FMul(IF t.p_bench = Zero THEN One ELSE FDiv(t.p_instant, t.p_bench),
         FAdd(FMul(FSub(params.rho, One), t.v),
              FAdd(FMul(params.cost_k, t.p_bench), params.cost_b)))

\* idle_assign without the cap at v_max.
idle_assign_uncapped(t, params, delta_v) ==
    [t EXCEPT !.v = FAdd(t.v, delta_v),
              !.payable = FAdd(t.payable, delta_v)]

\* update_v_idle: the two assignments
idle_assign(t, params, delta_v) ==
    [t EXCEPT !.v = FMin(FAdd(t.v, delta_v), params.v_max),
              !.payable = FAdd(t.payable, delta_v)]

\* TokenomicInfo::update_v_idle (case 1)
update_v_idle(t, params) == idle_assign(t, params, idle_delta_v(t, params))

NO_UPDATE(t) == [ info |-> t, payout |-> Zero, treasury |-> Zero ]

\* update_v_heartbeat: the assignments and the pair returned
heartbeat_assign(t, now_ms, block_number, actual_payout, actual_treasury) ==
    [ info |-> [t EXCEPT !.v = FSub(t.v, actual_payout),
                         !.payable = Zero,
                         !.v_update_at = now_ms,
                         !.v_update_block = block_number,
                         !.last_payout = actual_payout,
                         !.last_payout_at_block = block_number,
                         !.total_payout = FAdd(t.total_payout, actual_payout),
                         !.total_payout_count = t.total_payout_count + 1],
      payout |-> actual_payout,
      treasury |-> actual_treasury ]

\* update_v_heartbeat: actual_treasury
heartbeat_treasury(t, now_ms, block_number, actual_payout, to_payout, to_treasury) ==
    heartbeat_assign(t, now_ms, block_number, actual_payout,
                     FMul(FDiv(actual_payout, to_payout), to_treasury))

\* update_v_heartbeat: actual_payout
heartbeat_payout(t, now_ms, block_number, to_payout, to_treasury) ==
    heartbeat_treasury(t, now_ms, block_number,
                       FMin(FMax(t.payable, Zero), to_payout), to_payout, to_treasury)

\* update_v_heartbeat: to_payout and to_treasury
heartbeat_split(t, params, now_ms, block_number, budget_) ==
    heartbeat_payout(t, now_ms, block_number,
                     FMul(budget_, params.payout_ration),
                     FMul(budget_, params.treasury_ration))

\* update_v_heartbeat: blocks and budget, for a share that is not zero
heartbeat_budget(t, params, sum_share, now_ms, block_number, share_) ==
    IF share_ = Zero THEN NO_UPDATE(t)
    ELSE heartbeat_split(t, params, now_ms, block_number,
                         FMul(FMul(FDiv(share_, sum_share), params.budget_per_block),
                              FromNum(block_number - t.v_update_block)))

\* update_v_heartbeat without the comparison of the block with v_update_block.
update_v_heartbeat_any_block(t, params, sum_share, now_ms, block_number) ==
    IF sum_share = Zero THEN NO_UPDATE(t)
    ELSE IF t.payable = Zero THEN NO_UPDATE(t)
    ELSE heartbeat_budget(t, params, sum_share, now_ms, block_number, share(t))

\* TokenomicInfo::update_v_heartbeat (case 2): the record after the call and
\* the pair it returns.
update_v_heartbeat(t, params, sum_share, now_ms, block_number) ==
    IF sum_share = Zero THEN NO_UPDATE(t)
    ELSE IF t.payable = Zero THEN NO_UPDATE(t)
    ELSE IF block_number <= t.v_update_block THEN NO_UPDATE(t)
    ELSE heartbeat_budget(t, params, sum_share, now_ms, block_number, share(t))

\* update_v_slash: the assignments
slash_assign(t, block_number, slash) ==
    [t EXCEPT !.v = FSub(t.v, slash),
              !.payable = Zero,
              !.last_slash = slash,
              !.last_slash_at_block = block_number,
              !.total_slash = FAdd(t.total_slash, slash),
              !.total_slash_count = t.total_slash_count + 1]

\* TokenomicInfo::update_v_slash (cases 3 and 4)
update_v_slash(t, params, block_number) ==
    slash_assign(t, block_number, FMul(t.v, params.slash_rate))

\* update_p_instant: dt, p and the assignment, after the reset of iteration_last
p_instant_assign(t, now, iterations, iteration_last) ==
    [t EXCEPT !.iteration_last = iteration_last,
              !.p_instant =
                 FMin(FMulInt(FDiv(FromNum(iterations - iteration_last),
                                   FDivInt(FromNum(now - t.challenge_time_last), 1000)),
                              6),
                      FMul(t.p_bench, FpTenths(12)))]

\* TokenomicInfo::update_p_instant
update_p_instant(t, now, iterations) ==
    IF now <= t.challenge_time_last THEN t
    ELSE p_instant_assign(t, now, iterations,
                          IF iterations < t.iteration_last
                          THEN iterations ELSE t.iteration_last)

-----------------------------------------------------------------------------
(* Keys, hashes, messages *)

\* The worker public keys of the test fixture (Roles::test_roles), in the
\* order of the BTreeMap.
PubKeys == {1, 2}

\* Gatekeeper.master_key, and a key the Gatekeeper does not hold.
MasterKey == "master_key"
OtherKey == "other_key"

\* blake2_256(pubkey) as a U256: distinct keys have distinct hashes.
HashedId(pubkey) == 2 * pubkey + 1

\* Bitwise exclusive or of two naturals.
RECURSIVE Xor(_, _)
Xor(a, b) ==
    IF a = 0 THEN b
    ELSE IF b = 0 THEN a
    ELSE 2 * Xor(a \div 2, b \div 2) + (IF a % 2 = b % 2 THEN 0 ELSE 1)

\* fn next_random_number: blake2_256 over (last_random_number, block_number,
\* the secret derived from the master key), as a collision-free hash.
next_random_number(master_key, block_number, last) ==
    << last, block_number, master_key >>

\* [0_u8; 32]
ZeroRandom == << >>

\* tests::block_ts
block_ts(block_number) == block_number * 12000

\* BlockInfo, with the clock of the test helper with_block.
BlockInfo(block_number) ==
    [ block_number |-> block_number, now_ms |-> block_ts(block_number) ]

Pallet == [ tag |-> "Pallet", pubkey |-> 0 ]
GatekeeperOrigin == [ tag |-> "Gatekeeper", pubkey |-> 0 ]
Worker(pubkey) == [ tag |-> "Worker", pubkey |-> pubkey ]

\* MiningReportEvent::Heartbeat with its origin.
Heartbeat(origin, session_id, challenge_block, challenge_time, iterations) ==
    [ origin |-> origin, session_id |-> session_id,
      challenge_block |-> challenge_block, challenge_time |-> challenge_time,
      iterations |-> iterations ]

\* SystemEvent with its origin: a WorkerEvent for a pubkey or a HeartbeatChallenge.
SystemEvent(origin, event, pubkey, a, b, c) ==
    [ origin |-> origin, event |-> event, pubkey |-> pubkey,
      confidence_level |-> a, session_id |-> a, init_v |-> b, init_p |-> c,
      seed |-> b, online_target |-> c ]

Registered(origin, pubkey, confidence_level) ==
    SystemEvent(origin, "Registered", pubkey, confidence_level, 0, 0)
BenchStart(origin, pubkey) == SystemEvent(origin, "BenchStart", pubkey, 0, 0, 0)
BenchScore(origin, pubkey) == SystemEvent(origin, "BenchScore", pubkey, 0, 0, 0)
MiningStart(origin, pubkey, session_id, init_v, init_p) ==
    SystemEvent(origin, "MiningStart", pubkey, session_id, init_v, init_p)
MiningStop(origin, pubkey) == SystemEvent(origin, "MiningStop", pubkey, 0, 0, 0)
MiningEnterUnresponsive(origin, pubkey) ==
    SystemEvent(origin, "MiningEnterUnresponsive", pubkey, 0, 0, 0)
MiningExitUnresponsive(origin, pubkey) ==
    SystemEvent(origin, "MiningExitUnresponsive", pubkey, 0, 0, 0)
HeartbeatChallenge(origin, seed, online_target) ==
    SystemEvent(origin, "HeartbeatChallenge", 0, 0, seed, online_target)

\* GatekeeperEvent with its origin.
NewRandomNumber(origin, block_number, random_number, last) ==
    [ origin |-> origin, event |-> "NewRandomNumber",
      block_number |-> block_number, random_number |-> random_number,
      last_random_number |-> last, params |-> << >> ]
TokenomicParametersChanged(origin, params) ==
    [ origin |-> origin, event |-> "TokenomicParametersChanged",
      block_number |-> 0, random_number |-> << >>,
      last_random_number |-> << >>, params |-> << params >> ]

\* MessageOrigin::is_pallet / is_gatekeeper
is_pallet(origin) == origin.tag = "Pallet"
is_gatekeeper(origin) == origin.tag = "Gatekeeper"

-----------------------------------------------------------------------------
(* WorkerState (super::WorkerState) and WorkerInfo *)

\* Option<T> is a sequence of at most one element.
None == << >>
Some(x) == << x >>
is_some(o) == o # << >>
is_none(o) == o = << >>

\* WorkerState::new
NewWorkerState(pubkey) ==
    [ registered |-> FALSE, mining_state |-> None, pubkey |-> pubkey ]

\* WorkerInfo::new
NewWorkerInfo(pubkey) ==
    [ state |-> NewWorkerState(pubkey),
      waiting_heartbeats |-> << >>,
      unresponsive |-> FALSE,
      tokenomic |-> DefaultTokenomicInfo,
      heartbeat_flag |-> FALSE,
      last_heartbeat_for_block |-> 0,
      last_heartbeat_at_block |-> 0,
      last_gk_responsive_event |-> "NoEvent",
      last_gk_responsive_event_at_block |-> 0 ]

\* The selection rule of a heartbeat challenge: the test helper selects one
\* worker with seed = blake2_256(pubkey) and online_target = 0.
IsChallenged(pubkey, seed, online_target) ==
    Xor(HashedId(pubkey), seed) <= online_target

\* A tracker that records no challenge.
TrackerHeartbeatDropped(waiting_heartbeats, challenge_block) == waiting_heartbeats

\* WorkerSMTracker::heartbeat
TrackerHeartbeat(waiting_heartbeats, challenge_block) ==
    Append(waiting_heartbeats, challenge_block)

\* WorkerState::process_event with a WorkerSMTracker on the worker's
\* waiting_heartbeats: the WorkerInfo after the replay of the event.
WorkerProcessEvent(w, block, msg) ==
    IF msg.event = "HeartbeatChallenge" THEN
        IF IsChallenged(w.state.pubkey, msg.seed, msg.online_target)
        THEN [w EXCEPT !.waiting_heartbeats =
                          TrackerHeartbeat(w.waiting_heartbeats, block.block_number)]
        ELSE w
    ELSE IF msg.pubkey # w.state.pubkey THEN w
    ELSE IF msg.event = "Registered" THEN [w EXCEPT !.state.registered = TRUE]
    ELSE IF msg.event = "MiningStart" THEN
        [w EXCEPT !.state.mining_state =
                     Some([ session_id |-> msg.session_id,
                            start_time |-> block.now_ms,
                            state |-> "Mining" ])]
    ELSE IF msg.event = "MiningStop" THEN [w EXCEPT !.state.mining_state = None]
    ELSE IF msg.event = "MiningEnterUnresponsive" /\ is_some(w.state.mining_state) THEN
        [w EXCEPT !.state.mining_state = Some([w.state.mining_state[1] EXCEPT !.state = "Paused"])]
    ELSE IF msg.event = "MiningExitUnresponsive" /\ is_some(w.state.mining_state) THEN
        [w EXCEPT !.state.mining_state = Some([w.state.mining_state[1] EXCEPT !.state = "Mining"])]
    ELSE w

\* WorkerState::on_block_processed: the benchmark timers, which the
\* Gatekeeper does not read; no heartbeat is emitted here.
WorkerOnBlockProcessed(w, block) == w

-----------------------------------------------------------------------------
(* GKMessageProcesser: the state it works on is                             *)
(*   ws     Gatekeeper.workers                                              *)
(*   params Gatekeeper.tokenomic_params                                     *)
(*   report the MiningInfoUpdateEvent of the block                          *)
(*   panic  the panic! that has aborted the call, or NoPanic                *)

NoPanic == "none"
StatePoisoned == "GK or Worker state poisoned"
RandomPoisoned == "GK state poisoned"
ArithmeticPanic == "arithmetic overflow or division by zero"


\* MiningInfoUpdateEvent::new
NewReport(block) ==
    [ block_number |-> block.block_number, timestamp_ms |-> block.now_ms,
      offline |-> << >>, recovered_to_online |-> << >>, settle |-> << >> ]

\* is_empty that forgets the settle list.
is_empty_without_settle(report) ==
    report.offline = << >> /\ report.recovered_to_online = << >>

\* MiningInfoUpdateEvent::is_empty
is_empty(report) ==
    report.offline = << >> /\ report.recovered_to_online = << >> /\ report.settle = << >>

SettleInfo(pubkey, v, payout, treasury) ==
    [ pubkey |-> pubkey, v |-> v, payout |-> payout, treasury |-> treasury ]

\* The pubkeys of a worker map in the iteration order of the BTreeMap.
RECURSIVE SortedKeys(_)
SortedKeys(keys) ==
    IF keys = {} THEN << >>
    ELSE LET k == CHOOSE x \in keys : \A y \in keys : x <= y
         IN  << k >> \o SortedKeys(keys \ {k})

\* GKMessageProcesser::prepare
prepare(st) ==
    [st EXCEPT !.ws = [pk \in DOMAIN st.ws |-> [st.ws[pk] EXCEPT !.heartbeat_flag = FALSE]]]

\* mining_settle that pushes the entry only when the payout is not zero.
mining_settle_nonzero(st, worker_pubkey, w2, r) ==
    IF TokenomicPanicked(r.info) \/ IsPanic(r.payout) \/ IsPanic(r.treasury)
    THEN [st EXCEPT !.ws[worker_pubkey] = [w2 EXCEPT !.tokenomic = r.info],
                    !.panic = ArithmeticPanic]
    ELSE IF r.payout = Zero
    THEN [st EXCEPT !.ws[worker_pubkey] = [w2 EXCEPT !.tokenomic = r.info]]
    ELSE [st EXCEPT
            !.ws[worker_pubkey] = [w2 EXCEPT !.tokenomic = r.info],
            !.report.settle = Append(@, SettleInfo(worker_pubkey, r.info.v,
                                                   r.payout, r.treasury))]

\* process_mining_report: the settle entry of an accepted heartbeat of a
\* responsive worker, r being what update_v_heartbeat returned.
mining_settle(st, worker_pubkey, w2, r) ==
    IF TokenomicPanicked(r.info) \/ IsPanic(r.payout) \/ IsPanic(r.treasury)
    THEN [st EXCEPT !.ws[worker_pubkey] = [w2 EXCEPT !.tokenomic = r.info],
                    !.panic = ArithmeticPanic]
    ELSE [st EXCEPT
            !.ws[worker_pubkey] = [w2 EXCEPT !.tokenomic = r.info],
            !.report.settle = Append(@, SettleInfo(worker_pubkey, r.info.v,
                                                   r.payout, r.treasury))]

\* The sum of share() over the workers that are not unresponsive.
RECURSIVE SumShareFrom(_, _)
SumShareFrom(ws, keys) ==
    IF keys = << >> THEN Zero
    ELSE FAdd(IF ws[Head(keys)].unresponsive THEN Zero
              ELSE share(ws[Head(keys)].tokenomic),
              SumShareFrom(ws, Tail(keys)))

SumShare(ws) == SumShareFrom(ws, SortedKeys(DOMAIN ws))

\* mining_payout with the sum of the shares taken anew from the workers as
\* the loop has left them so far.
mining_payout_live_sum(st, block, sum_share, worker_pubkey, w2) ==
    IF TokenomicPanicked(w2.tokenomic)
    THEN [st EXCEPT !.ws[worker_pubkey] = w2, !.panic = ArithmeticPanic]
    ELSE IF w2.unresponsive THEN [st EXCEPT !.ws[worker_pubkey] = w2]
    ELSE mining_settle(st, worker_pubkey, w2,
                       update_v_heartbeat(w2.tokenomic, st.params,
                                          SumShare([st.ws EXCEPT ![worker_pubkey] = w2]),
                                          block.now_ms, block.block_number))

\* process_mining_report: after the update of p_instant, the early return of
\* an unresponsive worker, else the payout.
mining_payout(st, block, sum_share, worker_pubkey, w2) ==
    IF TokenomicPanicked(w2.tokenomic)
    THEN [st EXCEPT !.ws[worker_pubkey] = w2, !.panic = ArithmeticPanic]
    ELSE IF w2.unresponsive THEN [st EXCEPT !.ws[worker_pubkey] = w2]
    ELSE mining_settle(st, worker_pubkey, w2,
                       update_v_heartbeat(w2.tokenomic, st.params, sum_share,
                                          block.now_ms, block.block_number))

\* mining_session without the comparison of the session_id.
mining_session_any(st, block, sum_share, msg, worker_pubkey, w1) ==
    IF is_none(w1.state.mining_state) THEN [st EXCEPT !.ws[worker_pubkey] = w1]
    ELSE mining_payout(st, block, sum_share, worker_pubkey,
             [w1 EXCEPT
                !.heartbeat_flag = TRUE,
                !.tokenomic =
                   [update_p_instant(w1.tokenomic, block.now_ms, msg.iterations) EXCEPT
                      !.challenge_time_last = msg.challenge_time,
                      !.iteration_last = msg.iterations]])

\* process_mining_report: the checks of the mining state and of the session,
\* then heartbeat_flag and the tokenomic fields of the heartbeat.
mining_session(st, block, sum_share, msg, worker_pubkey, w1) ==
    IF is_none(w1.state.mining_state) THEN [st EXCEPT !.ws[worker_pubkey] = w1]
    ELSE IF msg.session_id # w1.state.mining_state[1].session_id
    THEN [st EXCEPT !.ws[worker_pubkey] = w1]
    ELSE mining_payout(st, block, sum_share, worker_pubkey,
             [w1 EXCEPT
                !.heartbeat_flag = TRUE,
                !.tokenomic =
                   [update_p_instant(w1.tokenomic, block.now_ms, msg.iterations) EXCEPT
                      !.challenge_time_last = msg.challenge_time,
                      !.iteration_last = msg.iterations]])

\* mining_front that pops the front without comparing it with the heartbeat.
mining_front_unchecked(st, block, sum_share, msg, worker_pubkey, w0) ==
    mining_session(st, block, sum_share, msg, worker_pubkey,
                   [w0 EXCEPT !.waiting_heartbeats =
                                 IF w0.waiting_heartbeats = << >> THEN << >>
                                 ELSE Tail(w0.waiting_heartbeats)])

\* process_mining_report: the heartbeat must answer the front of
\* waiting_heartbeats, which it removes.
mining_front(st, block, sum_share, msg, worker_pubkey, w0) ==
    IF w0.waiting_heartbeats = << >> \/ Head(w0.waiting_heartbeats) # msg.challenge_block
    THEN [st EXCEPT !.ws[worker_pubkey] = w0, !.panic = StatePoisoned]
    ELSE mining_session(st, block, sum_share, msg, worker_pubkey,
                        [w0 EXCEPT !.waiting_heartbeats = Tail(w0.waiting_heartbeats)])

\* GKMessageProcesser::process_mining_report
process_mining_report(st, block, sum_share, msg) ==
    IF msg.origin.tag # "Worker" THEN st
    ELSE IF msg.origin.pubkey \notin DOMAIN st.ws THEN st
    ELSE mining_front(st, block, sum_share, msg, msg.origin.pubkey,
                      [st.ws[msg.origin.pubkey] EXCEPT
                          !.last_heartbeat_at_block = block.block_number,
                          !.last_heartbeat_for_block = msg.challenge_block])

\* WorkerEventEffect whose MiningStop reports nothing.
WorkerEventEffect_stop_silent(st, block, msg) ==
    IF msg.event = "HeartbeatChallenge" \/ msg.pubkey \notin DOMAIN st.ws THEN st
    ELSE
      LET worker == st.ws[msg.pubkey]
      IN
      IF msg.event = "Registered" THEN
          [st EXCEPT !.ws[msg.pubkey].tokenomic.confidence_level = msg.confidence_level]
      ELSE IF msg.event = "MiningStart" THEN
          LET v == msg.init_v
              prev == worker.tokenomic
          IN  [st EXCEPT
                 !.panic = IF IsPanic(FromNum(msg.init_p)) THEN ArithmeticPanic ELSE NoPanic,
                 !.ws[msg.pubkey].unresponsive = FALSE,
                 !.ws[msg.pubkey].tokenomic =
                    [ v |-> v, v_init |-> v, payable |-> Zero,
                      v_update_at |-> block.now_ms,
                      v_update_block |-> block.block_number,
                      iteration_last |-> 0,
                      challenge_time_last |-> block.now_ms,
                      p_bench |-> FromNum(msg.init_p),
                      p_instant |-> FromNum(msg.init_p),
                      confidence_level |-> prev.confidence_level,
                      last_payout |-> Zero, last_payout_at_block |-> 0,
                      total_payout |-> Zero, total_payout_count |-> 0,
                      last_slash |-> Zero, last_slash_at_block |-> 0,
                      total_slash |-> Zero, total_slash_count |-> 0 ]]
      ELSE IF msg.event = "MiningStop" THEN st
      ELSE st

\* WorkerEventEffect whose MiningStart carries the payable of the session
\* before into the new record.
WorkerEventEffect_payable_kept(st, block, msg) ==
    IF msg.event = "HeartbeatChallenge" \/ msg.pubkey \notin DOMAIN st.ws THEN st
    ELSE
      LET worker == st.ws[msg.pubkey]
      IN
      IF msg.event = "Registered" THEN
          [st EXCEPT !.ws[msg.pubkey].tokenomic.confidence_level = msg.confidence_level]
      ELSE IF msg.event = "MiningStart" THEN
          LET v == msg.init_v
              prev == worker.tokenomic
          IN  [st EXCEPT
                 !.panic = IF IsPanic(FromNum(msg.init_p)) THEN ArithmeticPanic ELSE NoPanic,
                 !.ws[msg.pubkey].unresponsive = FALSE,
                 !.ws[msg.pubkey].tokenomic =
                    [ v |-> v, v_init |-> v, payable |-> prev.payable,
                      v_update_at |-> block.now_ms,
                      v_update_block |-> block.block_number,
                      iteration_last |-> 0,
                      challenge_time_last |-> block.now_ms,
                      p_bench |-> FromNum(msg.init_p),
                      p_instant |-> FromNum(msg.init_p),
                      confidence_level |-> prev.confidence_level,
                      last_payout |-> Zero, last_payout_at_block |-> 0,
                      total_payout |-> Zero, total_payout_count |-> 0,
                      last_slash |-> Zero, last_slash_at_block |-> 0,
                      total_slash |-> Zero, total_slash_count |-> 0 ]]
      ELSE IF msg.event = "MiningStop" THEN
          [st EXCEPT !.report.settle =
                        Append(@, SettleInfo(worker.state.pubkey, worker.tokenomic.v,
                                             Zero, Zero))]
      ELSE st

\* WorkerEventEffect whose MiningStart clears waiting_heartbeats (the line
\* the source has commented out).
WorkerEventEffect_clearing(st, block, msg) ==
    IF msg.event = "HeartbeatChallenge" \/ msg.pubkey \notin DOMAIN st.ws THEN st
    ELSE
      LET worker == st.ws[msg.pubkey]
      IN
      IF msg.event = "Registered" THEN
          [st EXCEPT !.ws[msg.pubkey].tokenomic.confidence_level = msg.confidence_level]
      ELSE IF msg.event = "MiningStart" THEN
          LET v == msg.init_v
              prev == worker.tokenomic
          IN  [st EXCEPT
                 !.panic = IF IsPanic(FromNum(msg.init_p)) THEN ArithmeticPanic ELSE NoPanic,
                 !.ws[msg.pubkey].unresponsive = FALSE,
                 !.ws[msg.pubkey].waiting_heartbeats = << >>,
                 !.ws[msg.pubkey].tokenomic =
                    [ v |-> v, v_init |-> v, payable |-> Zero,
                      v_update_at |-> block.now_ms,
                      v_update_block |-> block.block_number,
                      iteration_last |-> 0,
                      challenge_time_last |-> block.now_ms,
                      p_bench |-> FromNum(msg.init_p),
                      p_instant |-> FromNum(msg.init_p),
                      confidence_level |-> prev.confidence_level,
                      last_payout |-> Zero, last_payout_at_block |-> 0,
                      total_payout |-> Zero, total_payout_count |-> 0,
                      last_slash |-> Zero, last_slash_at_block |-> 0,
                      total_slash |-> Zero, total_slash_count |-> 0 ]]
      ELSE IF msg.event = "MiningStop" THEN
          [st EXCEPT !.report.settle =
                        Append(@, SettleInfo(worker.state.pubkey, worker.tokenomic.v,
                                             Zero, Zero))]
      ELSE st

\* The second half of process_system_event: the effect of a WorkerEvent on
\* the WorkerInfo it names and on the report.
WorkerEventEffect(st, block, msg) ==
    IF msg.event = "HeartbeatChallenge" \/ msg.pubkey \notin DOMAIN st.ws THEN st
    ELSE
      LET worker == st.ws[msg.pubkey]
      IN
      IF msg.event = "Registered" THEN
          [st EXCEPT !.ws[msg.pubkey].tokenomic.confidence_level = msg.confidence_level]
      ELSE IF msg.event = "MiningStart" THEN
          LET v == msg.init_v
              prev == worker.tokenomic
          IN  [st EXCEPT
                 !.panic = IF IsPanic(FromNum(msg.init_p)) THEN ArithmeticPanic ELSE NoPanic,
                 !.ws[msg.pubkey].unresponsive = FALSE,
                 !.ws[msg.pubkey].tokenomic =
                    [ v |-> v, v_init |-> v, payable |-> Zero,
                      v_update_at |-> block.now_ms,
                      v_update_block |-> block.block_number,
                      iteration_last |-> 0,
                      challenge_time_last |-> block.now_ms,
                      p_bench |-> FromNum(msg.init_p),
                      p_instant |-> FromNum(msg.init_p),
                      confidence_level |-> prev.confidence_level,
                      last_payout |-> Zero, last_payout_at_block |-> 0,
                      total_payout |-> Zero, total_payout_count |-> 0,
                      last_slash |-> Zero, last_slash_at_block |-> 0,
                      total_slash |-> Zero, total_slash_count |-> 0 ]]
      ELSE IF msg.event = "MiningStop" THEN
          [st EXCEPT !.report.settle =
                        Append(@, SettleInfo(worker.state.pubkey, worker.tokenomic.v,
                                             Zero, Zero))]
      ELSE st

\* process_system_event: every WorkerInfo replays the event on its
\* WorkerState, then the event acts on the worker it names.
system_replay(st, block, msg, created) ==
    WorkerEventEffect(
        [st EXCEPT !.ws = [pk \in DOMAIN created |->
                             WorkerProcessEvent(created[pk], block, msg)]],
        block, msg)

\* process_system_event that creates the WorkerInfo of the pubkey a worker
\* event names whatever the event is.
process_system_event_any_creates(st, block, msg) ==
    IF ~is_pallet(msg.origin) THEN st
    ELSE system_replay(st, block, msg,
            IF msg.event # "HeartbeatChallenge" /\ msg.pubkey \notin DOMAIN st.ws
            THEN [pk \in DOMAIN st.ws \cup {msg.pubkey} |->
                    IF pk = msg.pubkey THEN NewWorkerInfo(pk) ELSE st.ws[pk]]
            ELSE st.ws)

\* GKMessageProcesser::process_system_event
process_system_event(st, block, msg) ==
    IF ~is_pallet(msg.origin) THEN st
    ELSE system_replay(st, block, msg,
            IF msg.event = "Registered" /\ msg.pubkey \notin DOMAIN st.ws
            THEN [pk \in DOMAIN st.ws \cup {msg.pubkey} |->
                    IF pk = msg.pubkey THEN NewWorkerInfo(pk) ELSE st.ws[pk]]
            ELSE st.ws)

\* process_random_number_event without the verification.
process_random_number_event_unverified(st, msg) == st

\* process_random_number_event that expects the random number that follows
\* the last_random_number of the Gatekeeper.
process_random_number_event_own_last(st, msg) ==
    IF ~is_gatekeeper(msg.origin) THEN st
    ELSE IF next_random_number(MasterKey, msg.block_number, last_random_number)
              # msg.random_number
         THEN [st EXCEPT !.panic = RandomPoisoned] ELSE st

\* GKMessageProcesser::process_random_number_event
process_random_number_event(st, msg) ==
    IF ~is_gatekeeper(msg.origin) THEN st
    ELSE
      LET expect_random == next_random_number(MasterKey, msg.block_number,
                                              msg.last_random_number)
      IN  IF expect_random # msg.random_number
          THEN [st EXCEPT !.panic = RandomPoisoned] ELSE st

\* process_gatekeeper_event: self.state.tokenomic_params = params.into()
install_params(st, params) ==
    IF IsPanic(params.payout_ration)
    THEN [st EXCEPT !.panic = ArithmeticPanic]
    ELSE [st EXCEPT !.params = params]

\* process_gatekeeper_event that takes the parameters of any origin.
process_gatekeeper_event_any_origin(st, msg) ==
    IF msg.event = "NewRandomNumber" THEN process_random_number_event(st, msg)
    ELSE install_params(st, ParamsFrom(msg.params[1]))

\* GKMessageProcesser::process_gatekeeper_event
process_gatekeeper_event(st, msg) ==
    IF msg.event = "NewRandomNumber" THEN process_random_number_event(st, msg)
    ELSE IF is_pallet(msg.origin) THEN install_params(st, ParamsFrom(msg.params[1]))
    ELSE st

\* block_post_process: the worker and the report after the update of V.
post_store(st, pk, w1, report, t) ==
    [st EXCEPT !.ws[pk] = [w1 EXCEPT !.tokenomic = t],
               !.report = report,
               !.panic = IF TokenomicPanicked(t) THEN ArithmeticPanic ELSE NoPanic]

\* post_update_v that slashes only in the block of the transition (case 3).
post_update_v_case3_only(st, block, pk, w1, report) ==
    post_store(st, pk, w1, report,
               IF w1.unresponsive THEN
                   IF w1.last_gk_responsive_event_at_block = block.block_number
                   THEN update_v_slash(w1.tokenomic, st.params, block.block_number)
                   ELSE w1.tokenomic
               ELSE IF ~w1.heartbeat_flag THEN
                   update_v_idle(w1.tokenomic, st.params)
               ELSE w1.tokenomic)

\* post_update_v that idles every responsive worker, heartbeat or not.
post_update_v_idle_always(st, block, pk, w1, report) ==
    post_store(st, pk, w1, report,
               IF w1.unresponsive THEN
                   update_v_slash(w1.tokenomic, st.params, block.block_number)
               ELSE update_v_idle(w1.tokenomic, st.params))

\* block_post_process: the update of V (cases 3 and 4 slash, case 1 idles,
\* case 2 was handled with the heartbeat).
post_update_v(st, block, pk, w1, report) ==
    post_store(st, pk, w1, report,
               IF w1.unresponsive THEN
                   update_v_slash(w1.tokenomic, st.params, block.block_number)
               ELSE IF ~w1.heartbeat_flag THEN
                   update_v_idle(w1.tokenomic, st.params)
               ELSE w1.tokenomic)

\* post_transition that reports a recovery without clearing unresponsive.
post_transition_stays(st, block, pk, w0, case5, case3) ==
    post_update_v(st, block, pk,
        IF case3 /\ ~case5 THEN
            [w0 EXCEPT !.unresponsive = TRUE,
                       !.last_gk_responsive_event = "EnterUnresponsive",
                       !.last_gk_responsive_event_at_block = block.block_number]
        ELSE w0,
        IF case5 THEN
            [st.report EXCEPT !.recovered_to_online = Append(@, w0.state.pubkey)]
        ELSE IF case3 THEN
            [st.report EXCEPT !.offline = Append(@, w0.state.pubkey)]
        ELSE st.report)

\* post_transition that does not report the worker that enters unresponsive.
post_transition_silent(st, block, pk, w0, case5, case3) ==
    post_update_v(st, block, pk,
        IF case5 THEN
            [w0 EXCEPT !.unresponsive = FALSE,
                       !.last_gk_responsive_event = "ExitUnresponsive",
                       !.last_gk_responsive_event_at_block = block.block_number]
        ELSE IF case3 THEN
            [w0 EXCEPT !.unresponsive = TRUE,
                       !.last_gk_responsive_event = "EnterUnresponsive",
                       !.last_gk_responsive_event_at_block = block.block_number]
        ELSE w0,
        IF case5 THEN
            [st.report EXCEPT !.recovered_to_online = Append(@, w0.state.pubkey)]
        ELSE st.report)

\* block_post_process: the transitions of unresponsive (case 5: recovered;
\* case 3: the oldest pending challenge is older than the window).
post_transition(st, block, pk, w0, case5, case3) ==
    post_update_v(st, block, pk,
        IF case5 THEN
            [w0 EXCEPT !.unresponsive = FALSE,
                       !.last_gk_responsive_event = "ExitUnresponsive",
                       !.last_gk_responsive_event_at_block = block.block_number]
        ELSE IF case3 THEN
            [w0 EXCEPT !.unresponsive = TRUE,
                       !.last_gk_responsive_event = "EnterUnresponsive",
                       !.last_gk_responsive_event_at_block = block.block_number]
        ELSE w0,
        IF case5 THEN
            [st.report EXCEPT !.recovered_to_online = Append(@, w0.state.pubkey)]
        ELSE IF case3 THEN
            [st.report EXCEPT !.offline = Append(@, w0.state.pubkey)]
        ELSE st.report)

\* post_mining that takes a challenge for late when its age reaches the window.
post_mining_at_window(st, block, pk, w0) ==
    IF is_none(w0.state.mining_state) THEN [st EXCEPT !.ws[pk] = w0]
    ELSE post_transition(st, block, pk, w0,
            w0.unresponsive /\ w0.heartbeat_flag,
            /\ ~w0.unresponsive
            /\ w0.waiting_heartbeats # << >>
            /\ block.block_number - Head(w0.waiting_heartbeats)
                  >= st.params.heartbeat_window)

\* post_mining that runs the pass for a worker whatever its mining_state is.
post_mining_any_state(st, block, pk, w0) ==
    post_transition(st, block, pk, w0,
        w0.unresponsive /\ w0.heartbeat_flag,
        /\ ~w0.unresponsive
        /\ w0.waiting_heartbeats # << >>
        /\ block.block_number - Head(w0.waiting_heartbeats)
              > st.params.heartbeat_window)

\* post_mining that lets one more block pass before case 3.
post_mining_one_block_late(st, block, pk, w0) ==
    IF is_none(w0.state.mining_state) THEN [st EXCEPT !.ws[pk] = w0]
    ELSE post_transition(st, block, pk, w0,
            w0.unresponsive /\ w0.heartbeat_flag,
            /\ ~w0.unresponsive
            /\ w0.waiting_heartbeats # << >>
            /\ block.block_number - Head(w0.waiting_heartbeats)
                  > st.params.heartbeat_window + 1)

\* block_post_process: a worker that is not mining is skipped.
post_mining(st, block, pk, w0) ==
    IF is_none(w0.state.mining_state) THEN [st EXCEPT !.ws[pk] = w0]
    ELSE post_transition(st, block, pk, w0,
            w0.unresponsive /\ w0.heartbeat_flag,
            /\ ~w0.unresponsive
            /\ w0.waiting_heartbeats # << >>
            /\ block.block_number - Head(w0.waiting_heartbeats)
                  > st.params.heartbeat_window)

\* The body of the loop of block_post_process for one worker.
PostProcessWorker(st, block, pk) ==
    post_mining(st, block, pk, WorkerOnBlockProcessed(st.ws[pk], block))

\* GKMessageProcesser::block_post_process: the workers in the order of the map.
RECURSIVE PostProcessFrom(_, _, _)
PostProcessFrom(st, block, keys) ==
    IF keys = << >> \/ st.panic # NoPanic THEN st
    ELSE PostProcessFrom(PostProcessWorker(st, block, Head(keys)), block, Tail(keys))

\* A sequence from its last element to its first.
Reversed(seq) == [ i \in 1..Len(seq) |-> seq[Len(seq) + 1 - i] ]

\* block_post_process over a map that is iterated from the greatest pubkey.
block_post_process_descending(st, block) ==
    PostProcessFrom(st, block, Reversed(SortedKeys(DOMAIN st.ws)))

block_post_process(st, block) ==
    PostProcessFrom(st, block, SortedKeys(DOMAIN st.ws))

\* The loop with the system events taken before the mining reports.
RECURSIVE DrainSystemFirst(_, _, _, _, _, _)
DrainSystemFirst(st, block, sum_share, mining, system, gk) ==
    IF st.panic # NoPanic THEN st
    ELSE IF system # << >> THEN
        DrainSystemFirst(process_system_event(st, block, Head(system)),
                         block, sum_share, mining, Tail(system), gk)
    ELSE IF mining # << >> THEN
        DrainSystemFirst(process_mining_report(st, block, sum_share, Head(mining)),
                         block, sum_share, Tail(mining), system, gk)
    ELSE IF gk # << >> THEN
        DrainSystemFirst(process_gatekeeper_event(st, Head(gk)),
                         block, sum_share, mining, system, Tail(gk))
    ELSE st

\* The loop of GKMessageProcesser::process: select! takes a mining report
\* when there is one, else a system event, else a gatekeeper event, until the
\* three inboxes are empty; a panic ends the call.
RECURSIVE Drain(_, _, _, _, _, _)
Drain(st, block, sum_share, mining, system, gk) ==
    IF st.panic # NoPanic THEN st
    ELSE IF mining # << >> THEN
        Drain(process_mining_report(st, block, sum_share, Head(mining)),
              block, sum_share, Tail(mining), system, gk)
    ELSE IF system # << >> THEN
        Drain(process_system_event(st, block, Head(system)),
              block, sum_share, mining, Tail(system), gk)
    ELSE IF gk # << >> THEN
        Drain(process_gatekeeper_event(st, Head(gk)),
              block, sum_share, mining, system, Tail(gk))
    ELSE st

\* process: the post-block pass follows the loop unless the loop panicked.
process_post(drained, block) ==
    IF drained.panic # NoPanic THEN drained ELSE block_post_process(drained, block)

\* GKMessageProcesser::process
process(st, block, sum_share, mining, system, gk) ==
    process_post(Drain(prepare(st), block, sum_share, mining, system, gk), block)

\* The processor the call builds over the state, the report being empty.
ProcessorState(block, sum_share) ==
    [ ws |-> workers, params |-> tokenomic_params, report |-> NewReport(block),
      panic |-> IF IsPanic(sum_share) THEN ArithmeticPanic ELSE NoPanic ]

\* process_messages from sum_share on: the processor when process() returns
\* or panics.
ProcessedWith(block, sum_share) ==
    IF IsPanic(sum_share) THEN ProcessorState(block, sum_share)
    ELSE process(ProcessorState(block, sum_share), block, sum_share,
                 mining_events, system_events, gatekeeper_events)

Processed(block) == ProcessedWith(block, SumShare(workers))

-----------------------------------------------------------------------------
(* Gatekeeper *)

\* push_message on a channel that sends whatever its mode is.
PushedAlways(topic, body) == [ topic |-> topic, body |-> body, sent |-> TRUE ]

\* MsgChan::push_message: the message and whether the channel sends it (a
\* dummy channel drops it).
Pushed(topic, body) == [ topic |-> topic, body |-> body, sent |-> ~egress_dummy ]

\* Gatekeeper::new
Init ==
    /\ master_pubkey_on_chain = FALSE
    /\ registered_on_chain = FALSE
    /\ egress_dummy = TRUE
    /\ egress = << >>
    /\ mining_events = << >>
    /\ system_events = << >>
    /\ gatekeeper_events = << >>
    /\ workers = << >>
    /\ last_random_number = ZeroRandom
    /\ iv_seq = 0
    /\ tokenomic_params = test_params
    /\ overflow_checks \in BOOLEAN
    /\ panicked = NoPanic
    /\ last_call = [ op |-> "new", block |-> 0, again |-> FALSE ]
    /\ budget = [ calls |-> 0, msgs |-> 0 ]

\* Gatekeeper::register_on_chain
RegisterOnChain ==
    /\ panicked = NoPanic
    /\ egress_dummy' = FALSE
    /\ registered_on_chain' = TRUE
    /\ UNCHANGED << master_pubkey_on_chain, egress, mining_events, system_events,
                    gatekeeper_events, workers, last_random_number, iv_seq,
                    tokenomic_params, overflow_checks, panicked, last_call, budget >>

\* Gatekeeper::unregister_on_chain
UnregisterOnChain ==
    /\ panicked = NoPanic
    /\ egress_dummy' = TRUE
    /\ registered_on_chain' = FALSE
    /\ UNCHANGED << master_pubkey_on_chain, egress, mining_events, system_events,
                    gatekeeper_events, workers, last_random_number, iv_seq,
                    tokenomic_params, overflow_checks, panicked, last_call, budget >>

\* Gatekeeper::master_pubkey_uploaded
MasterPubkeyUploaded ==
    /\ panicked = NoPanic
    /\ master_pubkey_on_chain' = TRUE
    /\ UNCHANGED << registered_on_chain, egress_dummy, egress, mining_events,
                    system_events, gatekeeper_events, workers, last_random_number,
                    iv_seq, tokenomic_params, overflow_checks, panicked, last_call,
                    budget >>

\* Gatekeeper::generate_iv: blake2_256 over (the secret derived from the
\* master key, block_number, iv_seq), as a collision-free hash.
generate_iv(block_number) == << MasterKey, block_number, iv_seq >>

\* share_master_key that does not advance iv_seq.
ShareMasterKeySameSeq(pubkey, block_number) ==
    /\ panicked = NoPanic
    /\ egress' = << Pushed("MasterKeyDistribution",
                           [ target |-> pubkey, iv |-> generate_iv(block_number) ]) >>
    /\ last_call' = [ op |-> "share_master_key", block |-> block_number, again |-> FALSE ]
    /\ budget' = [budget EXCEPT !.calls = @ + 1]
    /\ UNCHANGED << master_pubkey_on_chain, registered_on_chain, egress_dummy,
                    mining_events, system_events, gatekeeper_events, workers, iv_seq,
                    last_random_number, tokenomic_params, overflow_checks, panicked >>

\* Gatekeeper::share_master_key
ShareMasterKey(pubkey, block_number) ==
    /\ panicked = NoPanic
    /\ egress' = << Pushed("MasterKeyDistribution",
                           [ target |-> pubkey, iv |-> generate_iv(block_number) ]) >>
    /\ iv_seq' = iv_seq + 1
    /\ last_call' = [ op |-> "share_master_key", block |-> block_number, again |-> FALSE ]
    /\ budget' = [budget EXCEPT !.calls = @ + 1]
    /\ UNCHANGED << master_pubkey_on_chain, registered_on_chain, egress_dummy,
                    mining_events, system_events, gatekeeper_events, workers,
                    last_random_number, tokenomic_params, overflow_checks, panicked >>

\* The settle list with the entries of one worker merged into the last one.
LastPerWorker(settle) ==
    SelectSeq([ i \in 1..Len(settle) |-> [ at |-> i, entry |-> settle[i] ] ],
              LAMBDA e : \A j \in (e.at + 1)..Len(settle) :
                            settle[j].pubkey # e.entry.pubkey)

\* process_messages that pushes one settle entry for a worker at most.
FlushMerged(st) ==
    IF st.panic # NoPanic THEN
       /\ panicked' = st.panic
       /\ UNCHANGED << egress, mining_events, system_events,
                       gatekeeper_events, workers, tokenomic_params >>
    ELSE
       /\ workers' = st.ws
       /\ tokenomic_params' = st.params
       /\ mining_events' = << >>
       /\ system_events' = << >>
       /\ gatekeeper_events' = << >>
       /\ egress' = IF is_empty(st.report) THEN << >>
                    ELSE << Pushed("MiningInfoUpdateEvent",
                                   [st.report EXCEPT !.settle =
                                      [ i \in 1..Len(LastPerWorker(st.report.settle))
                                          |-> LastPerWorker(st.report.settle)[i].entry ]]) >>
       /\ UNCHANGED panicked

\* process_messages: what the call leaves, st being the processor when
\* process() returned or panicked; a report that is not empty is pushed.
Flush(st) ==
    IF st.panic # NoPanic THEN
       /\ panicked' = st.panic
       /\ UNCHANGED << egress, mining_events, system_events,
                       gatekeeper_events, workers, tokenomic_params >>
    ELSE
       /\ workers' = st.ws
       /\ tokenomic_params' = st.params
       /\ mining_events' = << >>
       /\ system_events' = << >>
       /\ gatekeeper_events' = << >>
       /\ egress' = IF is_empty(st.report) THEN << >>
                    ELSE << Pushed("MiningInfoUpdateEvent", st.report) >>
       /\ UNCHANGED panicked

\* process_messages without the guard on master_pubkey_on_chain.
ProcessMessagesUnguarded(block_number) ==
    /\ panicked = NoPanic
    /\ budget' = [budget EXCEPT !.calls = @ + 1]
    /\ last_call' = [ op |-> "process_messages", block |-> block_number,
                       again |-> last_call.op = "process_messages"
                                 /\ last_call.block = block_number ]
    /\ Flush(Processed(BlockInfo(block_number)))
    /\ UNCHANGED << master_pubkey_on_chain, registered_on_chain, egress_dummy,
                    last_random_number, iv_seq, overflow_checks >>

\* process_messages that takes the random number of a pending NewRandomNumber
\* for its own last_random_number.
ProcessMessagesAdopting(block_number) ==
    /\ panicked = NoPanic
    /\ budget' = [budget EXCEPT !.calls = @ + 1]
    /\ last_call' = [ op |-> "process_messages", block |-> block_number,
                       again |-> last_call.op = "process_messages"
                                 /\ last_call.block = block_number ]
    /\ IF ~master_pubkey_on_chain THEN
          /\ egress' = << >>
          /\ UNCHANGED << mining_events, system_events, gatekeeper_events, workers,
                          tokenomic_params, panicked >>
       ELSE Flush(Processed(BlockInfo(block_number)))
    /\ last_random_number'
         = IF \E i \in 1..Len(gatekeeper_events) :
                 gatekeeper_events[i].event = "NewRandomNumber"
           THEN gatekeeper_events[
                   CHOOSE i \in 1..Len(gatekeeper_events) :
                      gatekeeper_events[i].event = "NewRandomNumber" ].random_number
           ELSE last_random_number
    /\ UNCHANGED << master_pubkey_on_chain, registered_on_chain, egress_dummy,
                    iv_seq, overflow_checks >>

\* Gatekeeper::process_messages
ProcessMessages(block_number) ==
    /\ panicked = NoPanic
    /\ budget' = [budget EXCEPT !.calls = @ + 1]
    /\ last_call' = [ op |-> "process_messages", block |-> block_number,
                       again |-> last_call.op = "process_messages"
                                 /\ last_call.block = block_number ]
    /\ IF ~master_pubkey_on_chain THEN
          /\ egress' = << >>
          /\ UNCHANGED << mining_events, system_events, gatekeeper_events, workers,
                          tokenomic_params, panicked >>
       ELSE Flush(Processed(BlockInfo(block_number)))
    /\ UNCHANGED << master_pubkey_on_chain, registered_on_chain, egress_dummy,
                    last_random_number, iv_seq, overflow_checks >>

\* Block interval to generate pseudo-random on chain
VRF_INTERVAL == 5

\* emit_random_number that leaves last_random_number as it is.
EmitRandomNumberUnchained(block_number) ==
    /\ panicked = NoPanic
    /\ last_call' = [ op |-> "emit_random_number", block |-> block_number, again |-> FALSE ]
    /\ budget' = [budget EXCEPT !.calls = @ + 1]
    /\ IF block_number % VRF_INTERVAL # 0 THEN egress' = << >>
       ELSE egress' = << Pushed("NewRandomNumber",
                                [ block_number |-> block_number,
                                  random_number |->
                                     next_random_number(MasterKey, block_number,
                                                        last_random_number),
                                  last_random_number |-> last_random_number ]) >>
    /\ UNCHANGED << master_pubkey_on_chain, registered_on_chain, egress_dummy,
                    mining_events, system_events, gatekeeper_events, workers, iv_seq,
                    last_random_number, tokenomic_params, overflow_checks, panicked >>

\* Gatekeeper::emit_random_number
EmitRandomNumber(block_number) ==
    /\ panicked = NoPanic
    /\ last_call' = [ op |-> "emit_random_number", block |-> block_number, again |-> FALSE ]
    /\ budget' = [budget EXCEPT !.calls = @ + 1]
    /\ IF block_number % VRF_INTERVAL # 0 THEN
          /\ egress' = << >>
          /\ UNCHANGED last_random_number
       ELSE
          LET random_number == next_random_number(MasterKey, block_number,
                                                  last_random_number)
          IN  /\ egress' = << Pushed("NewRandomNumber",
                                     [ block_number |-> block_number,
                                       random_number |-> random_number,
                                       last_random_number |-> last_random_number ]) >>
              /\ last_random_number' = random_number
    /\ UNCHANGED << master_pubkey_on_chain, registered_on_chain, egress_dummy,
                    mining_events, system_events, gatekeeper_events, workers, iv_seq,
                    tokenomic_params, overflow_checks, panicked >>

-----------------------------------------------------------------------------
(* The message queue: the dispatcher delivers a message to the inbox the   *)
(* Gatekeeper subscribed for its type.                                     *)

DispatchMining(msg) ==
    /\ panicked = NoPanic
    /\ mining_events' = Append(mining_events, msg)
    /\ budget' = [budget EXCEPT !.msgs = @ + 1]
    /\ UNCHANGED << master_pubkey_on_chain, registered_on_chain, egress_dummy, egress,
                    system_events, gatekeeper_events, workers, last_random_number,
                    iv_seq, tokenomic_params, overflow_checks, panicked, last_call >>

DispatchSystem(msg) ==
    /\ panicked = NoPanic
    /\ system_events' = Append(system_events, msg)
    /\ budget' = [budget EXCEPT !.msgs = @ + 1]
    /\ UNCHANGED << master_pubkey_on_chain, registered_on_chain, egress_dummy, egress,
                    mining_events, gatekeeper_events, workers, last_random_number,
                    iv_seq, tokenomic_params, overflow_checks, panicked, last_call >>

DispatchGatekeeper(msg) ==
    /\ panicked = NoPanic
    /\ gatekeeper_events' = Append(gatekeeper_events, msg)
    /\ budget' = [budget EXCEPT !.msgs = @ + 1]
    /\ UNCHANGED << master_pubkey_on_chain, registered_on_chain, egress_dummy, egress,
                    mining_events, system_events, workers, last_random_number,
                    iv_seq, tokenomic_params, overflow_checks, panicked, last_call >>

-----------------------------------------------------------------------------
(* The environment of the specification Spec: a pallet, workers and peers  *)
(* that may send anything, to two workers.                                 *)

\* TokenomicParameters a pallet installs in place of test_params.
AltParameters ==
    [ rho |-> One + 2, slash_rate |-> 4, budget_per_block |-> Fp(1),
      v_max |-> One + 8, cost_k |-> 0, cost_b |-> 2,
      treasury_ratio |-> FpTenths(5), heartbeat_window |-> 1 ]

\* The block numbers a call may carry after the block `current`: the same
\* block again, the next one, or one at the edge of the heartbeat window.
NextBlocks(current) ==
    { b \in { current, current + 1,
              current + test_params.heartbeat_window,
              current + test_params.heartbeat_window + 1 } : b >= 1 /\ b <= MaxBlock }

\* The challenge blocks a heartbeat of the worker may name: a pending
\* challenge of the worker, or block 0, which is never one.
ChallengeBlocks(pubkey) ==
    {0} \cup (IF pubkey \in DOMAIN workers
              THEN { workers[pubkey].waiting_heartbeats[i] :
                        i \in 1..Len(workers[pubkey].waiting_heartbeats) }
              ELSE {})

MiningMsgs ==
    { Heartbeat(Worker(pk), 1, cb, block_ts(cb), 0) :
        pk \in PubKeys, cb \in UNION { ChallengeBlocks(k) : k \in PubKeys } }
    \cup { Heartbeat(Pallet, 1, 0, 0, 0) }

SystemMsgs ==
    { Registered(Pallet, pk, 2) : pk \in PubKeys }
    \cup { MiningStart(Pallet, pk, 1, v, 1) : pk \in PubKeys, v \in {Fp(1), Fp(31)} }
    \cup { MiningStop(Pallet, pk) : pk \in PubKeys }
    \cup { HeartbeatChallenge(Pallet, HashedId(pk), 0) : pk \in PubKeys }
    \cup { HeartbeatChallenge(Pallet, 0, 7) }
    \cup { MiningEnterUnresponsive(Pallet, 1), MiningExitUnresponsive(Pallet, 1),
           BenchStart(Pallet, 1), BenchScore(Pallet, 1) }
    \cup { Registered(Worker(1), 1, 2), MiningStop(GatekeeperOrigin, 1) }

GatekeeperMsgs ==
    { TokenomicParametersChanged(Pallet, AltParameters),
      TokenomicParametersChanged(Worker(1), AltParameters),
      NewRandomNumber(GatekeeperOrigin, VRF_INTERVAL,
                      next_random_number(MasterKey, VRF_INTERVAL, ZeroRandom), ZeroRandom),
      NewRandomNumber(GatekeeperOrigin, VRF_INTERVAL,
                      next_random_number(OtherKey, VRF_INTERVAL, ZeroRandom), ZeroRandom),
      NewRandomNumber(Pallet, VRF_INTERVAL,
                      next_random_number(OtherKey, VRF_INTERVAL, ZeroRandom), ZeroRandom) }

Next ==
    \/ MasterPubkeyUploaded
    \/ \E msg \in MiningMsgs :
          budget.msgs < MaxMsgs /\ Len(mining_events) < MaxInbox /\ DispatchMining(msg)
    \/ \E msg \in SystemMsgs :
          budget.msgs < MaxMsgs /\ Len(system_events) < MaxInbox /\ DispatchSystem(msg)
    \/ \E msg \in GatekeeperMsgs :
          budget.msgs < MaxMsgs /\ Len(gatekeeper_events) < MaxInbox
          /\ DispatchGatekeeper(msg)
    \/ \E b \in NextBlocks(last_call.block) : budget.calls < MaxCalls /\ ProcessMessages(b)

Spec == Init /\ [][Next]_vars

-----------------------------------------------------------------------------
(* The environment of the specification MiningSpec: one worker that the    *)
(* pallet registers, starts, stops and challenges, and that answers its    *)
(* pending challenges in order, after the master pubkey is on chain.       *)

\* The pallet registers the worker first; then it starts a mining session (1
\* or 2) or stops the session, or challenges the worker as the test helper
\* does.
PalletMsgs ==
    IF budget.msgs = 0 THEN { Registered(Pallet, 1, 2) }
    ELSE { MiningStart(Pallet, 1, 1, Fp(1), 1),
           MiningStart(Pallet, 1, 2, Fp(1), 1),
           MiningStop(Pallet, 1),
           HeartbeatChallenge(Pallet, HashedId(1), 0) }

\* The worker answers the oldest pending challenge it has not answered yet, in
\* its session (1) or in a session that is over (2), with or without progress.
WorkerMsgs ==
    IF 1 \in DOMAIN workers /\ Len(mining_events) < Len(workers[1].waiting_heartbeats)
    THEN { Heartbeat(Worker(1), s, workers[1].waiting_heartbeats[Len(mining_events) + 1],
                     block_ts(workers[1].waiting_heartbeats[Len(mining_events) + 1]), it) :
             s \in {1, 2}, it \in {0, 100} }
    ELSE {}

\* The pallet changes the parameters once.
ParameterMsgs ==
    IF budget.msgs > 0 /\ gatekeeper_events = << >> /\ tokenomic_params = test_params
    THEN { TokenomicParametersChanged(Pallet, AltParameters) }
    ELSE {}

MiningNext ==
    \/ MasterPubkeyUploaded /\ ~master_pubkey_on_chain
    \/ \E msg \in WorkerMsgs :
          /\ master_pubkey_on_chain
          /\ budget.msgs < MiningMaxMsgs /\ Len(mining_events) < MiningMaxInbox
          /\ DispatchMining(msg)
    \/ \E msg \in PalletMsgs :
          /\ master_pubkey_on_chain
          /\ budget.msgs < MiningMaxMsgs /\ Len(system_events) < MiningMaxInbox
          /\ DispatchSystem(msg)
    \/ \E msg \in ParameterMsgs :
          /\ master_pubkey_on_chain
          /\ budget.msgs < MiningMaxMsgs /\ Len(gatekeeper_events) < MiningMaxInbox
          /\ DispatchGatekeeper(msg)
    \/ \E b \in NextBlocks(last_call.block) :
          /\ master_pubkey_on_chain
          /\ budget.calls < MiningMaxCalls
          /\ ProcessMessages(b)

MiningSpec == Init /\ [][MiningNext]_vars

-----------------------------------------------------------------------------
(* The specification TokenomicSpec: the methods update_p_instant and       *)
(* update_v_heartbeat of TokenomicInfo, called on the record of one worker *)
(* as the unit test test_update_p_instant calls them.  challenge_time_last *)
(* and iteration_last are what the worker wrote in its last heartbeat.     *)

\* The TokenomicInfo records the calls start from.
TokenomicInputs ==
    { [DefaultTokenomicInfo EXCEPT !.v = v, !.payable = payable,
                                   !.v_update_block = v_update_block,
                                   !.p_bench = p, !.p_instant = p,
                                   !.confidence_level = c,
                                   !.challenge_time_last = challenge_time_last,
                                   !.iteration_last = iteration_last] :
        v \in {Zero, Fp(1), Fp(20)}, payable \in {Zero, 1, Fp(2)},
        v_update_block \in {0, 5}, p \in {Zero, Fp(1)}, c \in {0, 2},
        challenge_time_last \in {0, 12000}, iteration_last \in {0, 100} }

TokenomicInit ==
    /\ master_pubkey_on_chain = FALSE
    /\ registered_on_chain = FALSE
    /\ egress_dummy = TRUE
    /\ egress = << >>
    /\ mining_events = << >>
    /\ system_events = << >>
    /\ gatekeeper_events = << >>
    /\ \E t \in TokenomicInputs :
         workers = [ pk \in {1} |-> [NewWorkerInfo(pk) EXCEPT !.tokenomic = t] ]
    /\ last_random_number = ZeroRandom
    /\ iv_seq = 0
    /\ tokenomic_params = test_params
    /\ overflow_checks \in BOOLEAN
    /\ panicked = NoPanic
    /\ last_call = [ op |-> "new", block |-> 0, again |-> FALSE ]
    /\ budget = [ calls |-> 0, msgs |-> 0 ]

\* What a call on the record of worker 1 leaves: the record, or the panic.
TokenomicCall(t) ==
    /\ panicked = NoPanic
    /\ budget' = [budget EXCEPT !.calls = @ + 1]
    /\ IF TokenomicPanicked(t)
       THEN panicked' = ArithmeticPanic /\ UNCHANGED workers
       ELSE workers' = [workers EXCEPT ![1].tokenomic = t] /\ UNCHANGED panicked
    /\ UNCHANGED << master_pubkey_on_chain, registered_on_chain, egress_dummy, egress,
                    mining_events, system_events, gatekeeper_events,
                    last_random_number, iv_seq, tokenomic_params, overflow_checks >>

\* TokenomicInfo::update_p_instant(now, iterations) on the record.
UpdatePInstant(now, iterations) ==
    /\ TokenomicCall(update_p_instant(workers[1].tokenomic, now, iterations))
    /\ last_call' = [ op |-> "update_p_instant", block |-> 0, again |-> FALSE,
                       now |-> now, iterations |-> iterations ]

\* The pair update_v_heartbeat returns, as the call records it.
HeartbeatCall(ret, sum_share, now_ms, block_number) ==
    /\ TokenomicCall(ret.info)
    /\ last_call' = [ op |-> "update_v_heartbeat", block |-> block_number,
                       again |-> FALSE, sum_share |-> sum_share,
                       payout |-> ret.payout, treasury |-> ret.treasury ]

\* TokenomicInfo::update_v_heartbeat(params, sum_share, now_ms, block_number)
\* on the record.
UpdateVHeartbeat(sum_share, now_ms, block_number) ==
    HeartbeatCall(update_v_heartbeat(workers[1].tokenomic, tokenomic_params, sum_share,
                                     now_ms, block_number),
                  sum_share, now_ms, block_number)

\* The calls: update_p_instant at a time before, at or after
\* challenge_time_last, with iterations below, at or above iteration_last, up
\* to half the range of the integer part; update_v_heartbeat with a sum_share
\* of zero or more, for a block before, at or after v_update_block.
TokenomicNext ==
    \/ \E now \in {0, 12000, 13000, 24000} :
       \E iterations \in {0, 50, 100, 1000, Pow2(IntBits - 1)} :
          budget.calls < TokenomicMaxCalls /\ UpdatePInstant(now, iterations)
    \/ \E sum_share \in {Zero, Fp(1), Fp(40)} : \E b \in {3, 5, 6, 9} :
          budget.calls < TokenomicMaxCalls /\ UpdateVHeartbeat(sum_share, block_ts(b), b)

TokenomicSpec == TokenomicInit /\ [][TokenomicNext]_vars

-----------------------------------------------------------------------------
(* The environment of the specification ParamsSpec: the one worker of      *)
(* MiningSpec, and a pallet that installs TokenomicParameters of its       *)
(* choice: the fields of the event are raw U64F64 bits, any value of which *)
(* the chain can carry.                                                    *)

\* TokenomicParameters the pallet may install: those of AltParameters, the
\* same with a treasury_ratio of 1.5, with a rho of 1 - 2^-FracBits, and with
\* a slash_rate of 1.5.
InstallableParameters ==
    { AltParameters,
      [AltParameters EXCEPT !.treasury_ratio = One + One \div 2],
      [AltParameters EXCEPT !.rho = One - 1],
      [AltParameters EXCEPT !.slash_rate = One + One \div 2] }

ParamsNext ==
    \/ MasterPubkeyUploaded /\ ~master_pubkey_on_chain
    \/ \E msg \in WorkerMsgs :
          /\ master_pubkey_on_chain
          /\ budget.msgs < ParamsMaxMsgs /\ Len(mining_events) < MiningMaxInbox
          /\ DispatchMining(msg)
    \/ \E msg \in PalletMsgs :
          /\ master_pubkey_on_chain
          /\ budget.msgs < ParamsMaxMsgs /\ Len(system_events) < MiningMaxInbox
          /\ DispatchSystem(msg)
    \/ \E params \in InstallableParameters :
          /\ master_pubkey_on_chain
          /\ budget.msgs < ParamsMaxMsgs /\ gatekeeper_events = << >>
          /\ tokenomic_params = test_params
          /\ DispatchGatekeeper(TokenomicParametersChanged(Pallet, params))
    \/ \E b \in NextBlocks(last_call.block) :
          /\ master_pubkey_on_chain
          /\ budget.calls < ParamsMaxCalls
          /\ ProcessMessages(b)

ParamsSpec == Init /\ [][ParamsNext]_vars

-----------------------------------------------------------------------------
(* The environment of the specification CapSpec: the pallet first installs *)
(* parameters whose v_max lies below the cost a block accrues, then runs   *)
(* the one worker of MiningSpec: the v of the worker is pinned at v_max    *)
(* while its payable grows.                                                *)

\* The TokenomicParameters of test_params with a v_max of 1 and a cost_b of 2.
TightParameters ==
    [ rho |-> One + 1, slash_rate |-> 1, budget_per_block |-> Fp(100),
      v_max |-> Fp(1), cost_k |-> 1, cost_b |-> Fp(2),
      treasury_ratio |-> FpTenths(2), heartbeat_window |-> 10 ]

CapNext ==
    \/ MasterPubkeyUploaded /\ ~master_pubkey_on_chain
    \/ /\ master_pubkey_on_chain
       /\ budget.msgs = 0
       /\ DispatchGatekeeper(TokenomicParametersChanged(Pallet, TightParameters))
    \/ \E msg \in (IF budget.msgs = 1 THEN { Registered(Pallet, 1, 2) } ELSE PalletMsgs) :
          /\ master_pubkey_on_chain
          /\ budget.msgs \in 1..(CapMaxMsgs - 1) /\ Len(system_events) < MiningMaxInbox
          /\ DispatchSystem(msg)
    \/ \E msg \in WorkerMsgs :
          /\ master_pubkey_on_chain
          /\ budget.msgs \in 1..(CapMaxMsgs - 1) /\ Len(mining_events) < MiningMaxInbox
          /\ DispatchMining(msg)
    \/ \E b \in NextBlocks(last_call.block) :
          /\ master_pubkey_on_chain
          /\ budget.calls < CapMaxCalls
          /\ ProcessMessages(b)

CapSpec == Init /\ [][CapNext]_vars

-----------------------------------------------------------------------------
(* The specification LiveSpec: the messages of MiningSpec, and blocks with *)
(* increasing numbers that keep being processed once the master public key *)
(* is on chain, up to block LiveMaxBlock.                                  *)

\* The block numbers a call may carry after the block `current` when no
\* block is processed twice.
LaterBlocks(current) ==
    { b \in { current + 1,
              current + test_params.heartbeat_window,
              current + test_params.heartbeat_window + 1 } : b <= LiveMaxBlock }

\* The pallet registers the worker first; then it starts or stops its mining
\* session or challenges it.
LivePalletMsgs ==
    IF budget.msgs = 0 THEN { Registered(Pallet, 1, 2) }
    ELSE { MiningStart(Pallet, 1, 1, Fp(1), 1),
           MiningStop(Pallet, 1),
           HeartbeatChallenge(Pallet, HashedId(1), 0) }

\* The worker answers the oldest pending challenge it has not answered yet.
LiveWorkerMsgs ==
    IF 1 \in DOMAIN workers /\ Len(mining_events) < Len(workers[1].waiting_heartbeats)
    THEN { Heartbeat(Worker(1), 1, workers[1].waiting_heartbeats[Len(mining_events) + 1],
                     block_ts(workers[1].waiting_heartbeats[Len(mining_events) + 1]), 100) }
    ELSE {}

\* The next block is processed.
ProcessLater ==
    \E b \in LaterBlocks(last_call.block) :
       /\ master_pubkey_on_chain
       /\ ProcessMessages(b)

LiveNext ==
    \/ MasterPubkeyUploaded /\ ~master_pubkey_on_chain
    \/ \E msg \in LiveWorkerMsgs :
          /\ master_pubkey_on_chain
          /\ budget.msgs < LiveMaxMsgs /\ Len(mining_events) < LiveMaxInbox
          /\ DispatchMining(msg)
    \/ \E msg \in LivePalletMsgs :
          /\ master_pubkey_on_chain
          /\ budget.msgs < LiveMaxMsgs /\ Len(system_events) < LiveMaxInbox
          /\ DispatchSystem(msg)
    \/ ProcessLater

\* The step of last_call that ProcessLater takes; no other action of LiveNext
\* changes last_call, and ProcessLater can be taken exactly when this step
\* can.
LaterCall ==
    \E b \in LaterBlocks(last_call.block) :
       /\ master_pubkey_on_chain
       /\ panicked = NoPanic
       /\ last_call' = [ op |-> "process_messages", block |-> b, again |-> FALSE ]

\* Blocks keep being processed: the dispatcher calls process_messages for
\* every block it receives.
LiveSpec == Init /\ [][LiveNext]_vars /\ WF_last_call(LaterCall)

-----------------------------------------------------------------------------
(* The environment of the specification PairSpec: two workers that the     *)
(* pallet registers in either order, starts and challenges together, and   *)
(* that answer their pending challenges in order.                          *)

\* The pubkey is named by a pending system event of the kind.
PendingFor(event, pk) ==
    \E i \in 1..Len(system_events) :
       system_events[i].event = event /\ system_events[i].pubkey = pk

\* The heartbeats of the worker that are pending.
PendingHeartbeats(pk) ==
    Cardinality({ i \in 1..Len(mining_events) : mining_events[i].origin.pubkey = pk })

\* The worker is mining or the event that starts it is pending.
StartedOrPending(pk) ==
    \/ PendingFor("MiningStart", pk)
    \/ pk \in DOMAIN workers /\ is_some(workers[pk].state.mining_state)

\* The pallet registers a worker that it has not registered, starts a worker
\* it has registered and not started, or challenges the two workers once
\* they are started.
PairPalletMsgs ==
    { Registered(Pallet, pk, 2) :
        pk \in { k \in PubKeys : k \notin DOMAIN workers /\ ~PendingFor("Registered", k) } }
    \cup { MiningStart(Pallet, pk, 1, Fp(1), 1) :
             pk \in { k \in PubKeys :
                        /\ k \in DOMAIN workers \/ PendingFor("Registered", k)
                        /\ ~PendingFor("MiningStart", k)
                        /\ k \in DOMAIN workers => is_none(workers[k].state.mining_state) } }
    \cup (IF \A k \in PubKeys : StartedOrPending(k)
          THEN { HeartbeatChallenge(Pallet, 0, 7) } ELSE {})

\* A worker answers the oldest pending challenge it has not answered yet.
PairWorkerMsgs ==
    { Heartbeat(Worker(pk), 1, workers[pk].waiting_heartbeats[PendingHeartbeats(pk) + 1],
                block_ts(workers[pk].waiting_heartbeats[PendingHeartbeats(pk) + 1]), 100) :
        pk \in { k \in DOMAIN workers :
                   PendingHeartbeats(k) < Len(workers[k].waiting_heartbeats) } }

PairNext ==
    \/ MasterPubkeyUploaded /\ ~master_pubkey_on_chain
    \/ \E msg \in PairPalletMsgs :
          /\ master_pubkey_on_chain
          /\ budget.msgs < PairMaxMsgs /\ Len(system_events) < PairMaxInbox
          /\ DispatchSystem(msg)
    \/ \E msg \in PairWorkerMsgs :
          /\ master_pubkey_on_chain
          /\ budget.msgs < PairMaxMsgs /\ Len(mining_events) < PairMaxInbox
          /\ DispatchMining(msg)
    \/ \E b \in NextBlocks(last_call.block) :
          /\ master_pubkey_on_chain
          /\ budget.calls < PairMaxCalls
          /\ ProcessMessages(b)

PairSpec == Init /\ [][PairNext]_vars

-----------------------------------------------------------------------------
(* The environment of the specification ShareSpec: the pallet first lowers *)
(* budget_per_block, so that the budget of a block and not the payable of  *)
(* a worker bounds a payout, then registers, starts and challenges two     *)
(* workers, whose heartbeats report no iteration.                          *)

\* The TokenomicParameters of test_params with a budget of a quarter a block.
LeanParameters ==
    [ rho |-> One + 1, slash_rate |-> 1, budget_per_block |-> One \div 4,
      v_max |-> Fp(30), cost_k |-> 1, cost_b |-> 1,
      treasury_ratio |-> FpTenths(2), heartbeat_window |-> 10 ]

ShareNext ==
    \/ MasterPubkeyUploaded /\ ~master_pubkey_on_chain
    \/ /\ master_pubkey_on_chain
       /\ budget.msgs = 0
       /\ DispatchGatekeeper(TokenomicParametersChanged(Pallet, LeanParameters))
    \/ \E msg \in PairPalletMsgs :
          /\ master_pubkey_on_chain
          /\ budget.msgs \in 1..(ShareMaxMsgs - 1) /\ Len(system_events) < ShareMaxInbox
          /\ DispatchSystem(msg)
    \/ \E pk \in { k \in DOMAIN workers :
                     PendingHeartbeats(k) < Len(workers[k].waiting_heartbeats) } :
          /\ master_pubkey_on_chain
          /\ budget.msgs \in 1..(ShareMaxMsgs - 1) /\ Len(mining_events) < ShareMaxInbox
          /\ DispatchMining(
                Heartbeat(Worker(pk), 1,
                          workers[pk].waiting_heartbeats[PendingHeartbeats(pk) + 1],
                          block_ts(workers[pk].waiting_heartbeats[PendingHeartbeats(pk) + 1]),
                          0))
    \/ \E b \in NextBlocks(last_call.block) :
          /\ master_pubkey_on_chain
          /\ budget.calls < ShareMaxCalls
          /\ ProcessMessages(b)

ShareSpec == Init /\ [][ShareNext]_vars

-----------------------------------------------------------------------------
(* The environment of the specification FacadeSpec: the host calls every   *)
(* operation of the facade, and the chain delivers the random numbers the  *)
(* Gatekeeper has emitted, or forged ones, back to it.                     *)

\* The block numbers a call may carry after the block `current`: the same
\* block again, the next one, or one around the next multiple of
\* VRF_INTERVAL.
FacadeBlocks(current) ==
    { b \in { current, current + 1, current + VRF_INTERVAL - 1, current + VRF_INTERVAL } :
         b >= 1 /\ b <= MaxBlock }

\* NewRandomNumber events on the chain: the one the latest call has emitted,
\* from a gatekeeper; the same with a random number made with another key,
\* from a gatekeeper or from the pallet.
FacadeGatekeeperMsgs ==
    UNION { { NewRandomNumber(GatekeeperOrigin, egress[i].body.block_number,
                              egress[i].body.random_number,
                              egress[i].body.last_random_number),
              NewRandomNumber(GatekeeperOrigin, egress[i].body.block_number,
                              next_random_number(OtherKey, egress[i].body.block_number,
                                                 egress[i].body.last_random_number),
                              egress[i].body.last_random_number),
              NewRandomNumber(Pallet, egress[i].body.block_number,
                              next_random_number(OtherKey, egress[i].body.block_number,
                                                 egress[i].body.last_random_number),
                              egress[i].body.last_random_number) } :
            i \in { j \in 1..Len(egress) : egress[j].topic = "NewRandomNumber" } }

\* The events of the pallet for one worker that make a call push a report:
\* its registration and a MiningStop, which is settled.
FacadeSystemMsgs == { Registered(Pallet, 1, 2), MiningStop(Pallet, 1) }

FacadeNext ==
    \/ RegisterOnChain /\ ~registered_on_chain
    \/ UnregisterOnChain /\ registered_on_chain
    \/ MasterPubkeyUploaded /\ ~master_pubkey_on_chain
    \/ \E pk \in PubKeys : \E b \in FacadeBlocks(last_call.block) :
          budget.calls < FacadeMaxCalls /\ ShareMasterKey(pk, b)
    \/ \E b \in FacadeBlocks(last_call.block) :
          budget.calls < FacadeMaxCalls /\ EmitRandomNumber(b)
    \/ \E msg \in FacadeGatekeeperMsgs :
          budget.msgs < FacadeMaxMsgs /\ Len(gatekeeper_events) < MaxInbox
          /\ DispatchGatekeeper(msg)
    \/ \E msg \in FacadeSystemMsgs :
          budget.msgs < FacadeMaxMsgs /\ Len(system_events) < MaxInbox
          /\ DispatchSystem(msg)
    \/ \E b \in FacadeBlocks(last_call.block) :
          budget.calls < FacadeMaxCalls /\ ProcessMessages(b)

FacadeSpec == Init /\ [][FacadeNext]_vars

-----------------------------------------------------------------------------
(* The specification RoundSpec: the Gatekeeper emits random numbers, and   *)
(* the chain delivers every event emitted so far back to it, in any order  *)
(* and any number of times, from a gatekeeper or from the pallet, as it is *)
(* or with a random number made with another key.                          *)

\* The RandomNumberEvents emit_random_number has pushed so far: each random
\* number stored holds the block number and the random number before it.
RECURSIVE Emitted(_)
Emitted(random_number) ==
    IF random_number = ZeroRandom THEN {}
    ELSE { [ block_number |-> random_number[2],
             random_number |-> random_number,
             last_random_number |-> random_number[1] ] }
         \cup Emitted(random_number[1])

RoundGatekeeperMsgs ==
    UNION { { NewRandomNumber(GatekeeperOrigin, e.block_number, e.random_number,
                              e.last_random_number),
              NewRandomNumber(Pallet, e.block_number, e.random_number,
                              e.last_random_number),
              NewRandomNumber(GatekeeperOrigin, e.block_number,
                              next_random_number(OtherKey, e.block_number,
                                                 e.last_random_number),
                              e.last_random_number),
              NewRandomNumber(Pallet, e.block_number,
                              next_random_number(OtherKey, e.block_number,
                                                 e.last_random_number),
                              e.last_random_number) } :
            e \in Emitted(last_random_number) }

RoundNext ==
    \/ MasterPubkeyUploaded /\ ~master_pubkey_on_chain
    \/ \E b \in FacadeBlocks(last_call.block) :
          budget.calls < RoundMaxCalls /\ EmitRandomNumber(b)
    \/ \E msg \in RoundGatekeeperMsgs :
          budget.msgs < RoundMaxMsgs /\ Len(gatekeeper_events) < RoundMaxInbox
          /\ DispatchGatekeeper(msg)
    \/ \E b \in FacadeBlocks(last_call.block) :
          budget.calls < RoundMaxCalls /\ ProcessMessages(b)

RoundSpec == Init /\ [][RoundNext]_vars

-----------------------------------------------------------------------------
(* Properties *)

\* The step is a call of process_messages(b): every call of the facade is
\* counted in budget and named in last_call.
IsProcessMessages(b) ==
    /\ budget'.calls = budget.calls + 1
    /\ last_call'.op = "process_messages"
    /\ last_call'.block = b

\* The processor after the loop of process(), before block_post_process.
Drained(block) ==
    Drain(prepare(ProcessorState(block, SumShare(workers))), block, SumShare(workers),
          mining_events, system_events, gatekeeper_events)

\* C1: every call of process_messages pushes at most one message, a
\* MiningInfoUpdateEvent, and a call that processes the block pushes one if
\* and only if the offline, recovered_to_online or settle list of the report
\* is not empty after the loop and the post-block pass; the event pushed is
\* that report.
C1_AtMostOneReport ==
    [][ \A b \in 1..MaxBlock :
          IsProcessMessages(b) /\ panicked' = NoPanic =>
            /\ Len(egress') <= 1
            /\ \A i \in 1..Len(egress') : egress'[i].topic = "MiningInfoUpdateEvent"
            /\ ~master_pubkey_on_chain => egress' = << >>
            /\ master_pubkey_on_chain =>
                 /\ Len(egress') = 1 <=>
                      \/ Processed(BlockInfo(b)).report.offline # << >>
                      \/ Processed(BlockInfo(b)).report.recovered_to_online # << >>
                      \/ Processed(BlockInfo(b)).report.settle # << >>
                 /\ Len(egress') = 1 =>
                      egress'[1].body = Processed(BlockInfo(b)).report ]_vars

\* A call of process_messages has pushed a MiningInfoUpdateEvent.
C1_Witness ==
    /\ last_call.op = "process_messages"
    /\ Len(egress) = 1
    /\ egress[1].topic = "MiningInfoUpdateEvent"
    /\ egress[1].body.settle # << >>

\* C2: a call of process_messages while master_pubkey_on_chain is false
\* leaves the three inboxes, the workers, the parameters and the randomness
\* state as they are and pushes nothing; the first call that returns after
\* master_pubkey_uploaded() finds the messages and leaves the inboxes empty.
C2_NoOpBeforeLaunch ==
    [][ \A b \in 1..MaxBlock :
          IsProcessMessages(b) =>
            /\ ~master_pubkey_on_chain =>
                 /\ UNCHANGED << mining_events, system_events, gatekeeper_events,
                                 workers, tokenomic_params, last_random_number,
                                 iv_seq, master_pubkey_on_chain, panicked >>
                 /\ egress' = << >>
            /\ master_pubkey_on_chain /\ panicked' = NoPanic =>
                 /\ mining_events' = << >>
                 /\ system_events' = << >>
                 /\ gatekeeper_events' = << >> ]_vars

\* process_messages was called with messages in an inbox before the master
\* pubkey was on chain, and the messages are still there.
C2_Witness ==
    /\ last_call.op = "process_messages"
    /\ ~master_pubkey_on_chain
    /\ system_events # << >>
    /\ mining_events # << >>

\* C3: in every reachable state and block, handling a Heartbeat of a known
\* worker whose challenge_block is not the front of the worker's
\* waiting_heartbeats (an empty queue included) panics with the poisoned
\* state; one whose challenge_block is the front does not, and leaves the
\* queue without its front entry, the other entries as they were.
C3_HeartbeatFront ==
    \A pk \in DOMAIN workers : \A cb \in 0..MaxBlock : \A s \in {1, 2} :
      \A b \in NextBlocks(last_call.block) :
        IF workers[pk].waiting_heartbeats # << >>
           /\ Head(workers[pk].waiting_heartbeats) = cb
        THEN
          /\ process_mining_report(ProcessorState(BlockInfo(b), Zero), BlockInfo(b), Zero,
                                   Heartbeat(Worker(pk), s, cb, block_ts(cb), 0)).panic
               # StatePoisoned
          /\ process_mining_report(ProcessorState(BlockInfo(b), Zero), BlockInfo(b), Zero,
                                   Heartbeat(Worker(pk), s, cb, block_ts(cb), 0)
                                  ).ws[pk].waiting_heartbeats
               = Tail(workers[pk].waiting_heartbeats)
        ELSE
          process_mining_report(ProcessorState(BlockInfo(b), Zero), BlockInfo(b), Zero,
                                Heartbeat(Worker(pk), s, cb, block_ts(cb), 0)).panic
            = StatePoisoned

\* process_messages has panicked on a heartbeat that does not answer the front
\* of the queue of a known worker.
C3_Witness ==
    /\ panicked = StatePoisoned
    /\ \E i \in 1..Len(mining_events) :
         /\ mining_events[i].origin.tag = "Worker"
         /\ mining_events[i].origin.pubkey \in DOMAIN workers

\* C4: in every reachable state the waiting_heartbeats of every worker is
\* strictly ascending: each entry is greater than the one before it.
C4_StrictlyAscending ==
    \A pk \in DOMAIN workers :
      \A i \in 1..(Len(workers[pk].waiting_heartbeats) - 1) :
        workers[pk].waiting_heartbeats[i] < workers[pk].waiting_heartbeats[i + 1]

\* C5: in every reachable state the v of every worker is at most the v_max
\* of the parameters in force.
C5_VBound ==
    \A pk \in DOMAIN workers : workers[pk].tokenomic.v <= tokenomic_params.v_max

\* The step is a call of process_messages(b) that processes the block and
\* returns.
Processes(b) ==
    IsProcessMessages(b) /\ master_pubkey_on_chain /\ panicked' = NoPanic

\* The pubkey is in the list of pubkeys.
Listed(pk, list) == \E i \in 1..Len(list) : list[i] = pk

\* The entries of the settle list for the pubkey.
SettledFor(pk, settle) == { i \in 1..Len(settle) : settle[i].pubkey = pk }

\* The call has pushed a report that names the worker in one of its lists.
Reported(pk, pushed) ==
    \E i \in 1..Len(pushed) :
       \/ Listed(pk, pushed[i].body.offline)
       \/ Listed(pk, pushed[i].body.recovered_to_online)
       \/ SettledFor(pk, pushed[i].body.settle) # {}

\* A MiningStart or a MiningStop of the pallet for the worker waits in the
\* inbox of system events.
LifecyclePending(pk) ==
    \E i \in 1..Len(system_events) :
       /\ is_pallet(system_events[i].origin)
       /\ system_events[i].pubkey = pk
       /\ system_events[i].event \in {"MiningStart", "MiningStop"}

\* The worker is mining when the call starts.
Mining(pk) == pk \in DOMAIN workers /\ is_some(workers[pk].state.mining_state)

\* C6, for the worker w as the loop of the block b has left it: mining,
\* responsive, with a pending challenge.
OfflineRule(b, pk, w) ==
    is_some(w.state.mining_state) /\ ~w.unresponsive /\ w.waiting_heartbeats # << >> =>
      IF b - Head(w.waiting_heartbeats) > tokenomic_params'.heartbeat_window
      THEN /\ workers'[pk].unresponsive
           /\ Len(egress') = 1
           /\ Listed(pk, egress'[1].body.offline)
           /\ workers'[pk].tokenomic.v
                = FSub(w.tokenomic.v, FMul(w.tokenomic.v, tokenomic_params'.slash_rate))
      ELSE /\ ~workers'[pk].unresponsive
           /\ \A i \in 1..Len(egress') : ~Listed(pk, egress'[i].body.offline)

\* C6: in the post-block pass of block b, a mining, responsive worker whose
\* oldest pending challenge is of block c becomes unresponsive and is listed
\* in the offline list of the report pushed, its v slashed by v * slash_rate,
\* if and only if b - c > heartbeat_window; with b - c <= heartbeat_window it
\* stays responsive and is not listed.
C6_OfflineAfterWindow ==
    [][ \A b \in 1..MaxBlock :
          Processes(b) =>
            \A pk \in DOMAIN Drained(BlockInfo(b)).ws :
               OfflineRule(b, pk, Drained(BlockInfo(b)).ws[pk]) ]_vars

\* The worker went offline in the latest block: it is in the offline list of
\* the report pushed, unresponsive and slashed.
C6_Witness ==
    /\ last_call.op = "process_messages"
    /\ Len(egress) = 1
    /\ egress[1].body.offline = << 1 >>
    /\ Mining(1)
    /\ workers[1].unresponsive
    /\ workers[1].last_gk_responsive_event = "EnterUnresponsive"
    /\ workers[1].last_gk_responsive_event_at_block = last_call.block
    /\ last_call.block - Head(workers[1].waiting_heartbeats)
         = tokenomic_params.heartbeat_window + 1
    /\ workers[1].tokenomic.last_slash > Zero
    /\ workers[1].tokenomic.last_slash_at_block = last_call.block

\* What C7 promises of the block for the worker: in no list, still
\* unresponsive, slashed once by v * slash_rate.
SilentSlash(pk) ==
    /\ ~Reported(pk, egress')
    /\ workers'[pk].unresponsive
    /\ workers'[pk].tokenomic.v
         = FSub(workers[pk].tokenomic.v,
                FMul(workers[pk].tokenomic.v, tokenomic_params'.slash_rate))
    /\ workers'[pk].tokenomic.total_slash_count
         = workers[pk].tokenomic.total_slash_count + 1

\* C7 as stated: a mining worker that is unresponsive when the block starts
\* and of which the block accepts no heartbeat of the current session is put
\* in no list, stays unresponsive and is slashed once by v * slash_rate.
C7_SilentSlash_AsStated ==
    [][ \A b \in 1..MaxBlock : \A pk \in PubKeys :
          /\ Processes(b)
          /\ Mining(pk)
          /\ workers[pk].unresponsive
          /\ ~Drained(BlockInfo(b)).ws[pk].heartbeat_flag
          => SilentSlash(pk) ]_vars

\* C7, amended: the same, when the block handles no MiningStart and no
\* MiningStop of the worker.
C7_SilentSlash ==
    [][ \A b \in 1..MaxBlock : \A pk \in PubKeys :
          /\ Processes(b)
          /\ Mining(pk)
          /\ workers[pk].unresponsive
          /\ ~Drained(BlockInfo(b)).ws[pk].heartbeat_flag
          /\ ~LifecyclePending(pk)
          => SilentSlash(pk) ]_vars

\* The worker, unresponsive since an earlier call, was slashed again in the
\* latest block, which pushed nothing.
C7_Witness ==
    /\ last_call.op = "process_messages"
    /\ egress = << >>
    /\ Mining(1)
    /\ workers[1].unresponsive
    /\ workers[1].tokenomic.total_slash_count = 2
    /\ workers[1].tokenomic.last_slash_at_block = last_call.block
    /\ workers[1].tokenomic.last_slash > Zero

\* What C8 promises of the block for the worker: responsive, in
\* recovered_to_online, in no other list, v as before.
Recovered(pk) ==
    /\ ~workers'[pk].unresponsive
    /\ Len(egress') = 1
    /\ Listed(pk, egress'[1].body.recovered_to_online)
    /\ ~Listed(pk, egress'[1].body.offline)
    /\ SettledFor(pk, egress'[1].body.settle) = {}
    /\ workers'[pk].tokenomic.v = workers[pk].tokenomic.v

\* C8 as stated: when the block accepts a heartbeat of the current session
\* for the front challenge of a mining worker that is unresponsive, the
\* worker ends the block responsive, in recovered_to_online, in neither
\* settle nor offline, with the v it had.
C8_Recovery_AsStated ==
    [][ \A b \in 1..MaxBlock : \A pk \in PubKeys :
          /\ Processes(b)
          /\ Mining(pk)
          /\ workers[pk].unresponsive
          /\ Drained(BlockInfo(b)).ws[pk].heartbeat_flag
          => Recovered(pk) ]_vars

\* C8, amended: the same, when the block handles no MiningStart and no
\* MiningStop of the worker.
C8_Recovery ==
    [][ \A b \in 1..MaxBlock : \A pk \in PubKeys :
          /\ Processes(b)
          /\ Mining(pk)
          /\ workers[pk].unresponsive
          /\ Drained(BlockInfo(b)).ws[pk].heartbeat_flag
          /\ ~LifecyclePending(pk)
          => Recovered(pk) ]_vars

\* The worker recovered in the latest block.
C8_Witness ==
    /\ last_call.op = "process_messages"
    /\ Len(egress) = 1
    /\ egress[1].body.recovered_to_online = << 1 >>
    /\ egress[1].body.settle = << >>
    /\ Mining(1)
    /\ ~workers[1].unresponsive
    /\ workers[1].heartbeat_flag
    /\ workers[1].last_gk_responsive_event = "ExitUnresponsive"
    /\ workers[1].last_gk_responsive_event_at_block = last_call.block
    /\ workers[1].tokenomic.total_slash_count > 0

\* The case of C9: the block b accepts a heartbeat of the current session
\* from a mining, responsive worker for its only pending challenge, within
\* the window.
AnswersInTime(b, pk) ==
    /\ Processes(b)
    /\ Mining(pk)
    /\ ~workers[pk].unresponsive
    /\ Len(workers[pk].waiting_heartbeats) = 1
    /\ Head(workers[pk].waiting_heartbeats) < b
    /\ b <= Head(workers[pk].waiting_heartbeats) + tokenomic_params.heartbeat_window
    /\ Drained(BlockInfo(b)).ws[pk].heartbeat_flag

IdleBlock(b, pk) ==
    /\ Processes(b)
    /\ mining_events = << >>
    /\ system_events = << >>
    /\ gatekeeper_events = << >>
    /\ Mining(pk)
    /\ ~workers[pk].unresponsive
    /\ \/ workers[pk].waiting_heartbeats = << >>
       \/ b - Head(workers[pk].waiting_heartbeats) <= tokenomic_params.heartbeat_window

\* C10 as stated, for a worker whose v is at most v_max: the block pushes no
\* MiningInfoUpdateEvent, the worker stays responsive, and its v is not
\* lowered, and is raised when it was below v_max; the same block processed
\* again included.
C10_Idle_AsStated ==
    [][ \A b \in 1..MaxBlock : \A pk \in PubKeys :
          IdleBlock(b, pk) /\ workers[pk].tokenomic.v <= tokenomic_params.v_max =>
            /\ egress' = << >>
            /\ ~workers'[pk].unresponsive
            /\ workers'[pk].tokenomic.v >= workers[pk].tokenomic.v
            /\ workers[pk].tokenomic.v < tokenomic_params.v_max =>
                 workers'[pk].tokenomic.v > workers[pk].tokenomic.v ]_vars

\* C10, amended: the block puts the worker in no list of a report, the
\* worker stays responsive, and its v becomes min(v + delta_v, v_max) for the
\* delta_v of update_v_idle, which is zero when p_instant is zero: v is raised
\* when delta_v > 0 and v < v_max, and is the same when delta_v = 0 and
\* v <= v_max; the same block processed again included.
C10_Idle ==
    [][ \A b \in 1..MaxBlock : \A pk \in PubKeys :
          IdleBlock(b, pk) =>
            /\ ~Reported(pk, egress')
            /\ ~workers'[pk].unresponsive
            /\ workers'[pk].tokenomic.v
                 = FMin(FAdd(workers[pk].tokenomic.v,
                             idle_delta_v(workers[pk].tokenomic, tokenomic_params)),
                        tokenomic_params.v_max)
            /\ ( /\ idle_delta_v(workers[pk].tokenomic, tokenomic_params) > Zero
                 /\ workers[pk].tokenomic.v < tokenomic_params.v_max )
                 => workers'[pk].tokenomic.v > workers[pk].tokenomic.v
            /\ ( /\ idle_delta_v(workers[pk].tokenomic, tokenomic_params) = Zero
                 /\ workers[pk].tokenomic.v <= tokenomic_params.v_max )
                 => workers'[pk].tokenomic.v = workers[pk].tokenomic.v ]_vars

\* The same block was processed a second time without events, and the worker,
\* mining and responsive, was rewarded again.
C10_Witness ==
    /\ last_call.op = "process_messages"
    /\ last_call.again
    /\ egress = << >>
    /\ Mining(1)
    /\ ~workers[1].unresponsive
    /\ ~workers[1].heartbeat_flag
    /\ workers[1].tokenomic.v > workers[1].tokenomic.v_init
    /\ workers[1].tokenomic.v < tokenomic_params.v_max
    /\ workers[1].tokenomic.v_update_block = last_call.block

-----------------------------------------------------------------------------
(* Sessions and pending challenges *)

\* The heartbeats of the worker that wait in the mining inbox.
HeartbeatsOf(pk) ==
    { i \in 1..Len(mining_events) : mining_events[i].origin = Worker(pk) }

\* The challenges of the pallet in the system inbox that select the worker.
ChallengesOf(pk) ==
    { i \in 1..Len(system_events) :
         /\ is_pallet(system_events[i].origin)
         /\ system_events[i].event = "HeartbeatChallenge"
         /\ IsChallenged(pk, system_events[i].seed, system_events[i].online_target) }

\* A heartbeat of the worker with the session_id of the session the worker
\* is in waits in the mining inbox.
CurrentSessionHeartbeat(pk) ==
    /\ Mining(pk)
    /\ \E i \in HeartbeatsOf(pk) :
          mining_events[i].session_id = workers[pk].state.mining_state[1].session_id

\* A MiningStart of the pallet for the worker waits in the system inbox.
MiningStartPending(pk) ==
    \E i \in 1..Len(system_events) :
       /\ is_pallet(system_events[i].origin)
       /\ system_events[i].pubkey = pk
       /\ system_events[i].event = "MiningStart"

\* The queue after a block: each heartbeat handled has removed the front
\* entry, each challenge that selects the worker has appended the block, and
\* nothing else has touched it.
QueueAfter(b, pk) ==
    SubSeq(workers[pk].waiting_heartbeats, Cardinality(HeartbeatsOf(pk)) + 1,
           Len(workers[pk].waiting_heartbeats))
      \o [ i \in 1..Cardinality(ChallengesOf(pk)) |-> b ]

\* C11 as stated: whatever MiningStart and MiningStop events the block
\* handles, waiting_heartbeats loses exactly its front entry for each
\* heartbeat accepted and nothing else, in order; and a worker that was
\* unresponsive is responsive after the block only if the block accepted a
\* heartbeat of it with the session_id of its session.
C11_CrossSession_AsStated ==
    [][ \A b \in 1..MaxBlock : \A pk \in DOMAIN workers :
          Processes(b) =>
            /\ workers'[pk].waiting_heartbeats = QueueAfter(b, pk)
            /\ workers[pk].unresponsive /\ ~workers'[pk].unresponsive
                 => CurrentSessionHeartbeat(pk) ]_vars

\* C11, amended: the same, except that a MiningStart handled in the block
\* also makes an unresponsive worker responsive, without any heartbeat.
C11_CrossSession ==
    [][ \A b \in 1..MaxBlock : \A pk \in DOMAIN workers :
          Processes(b) =>
            /\ workers'[pk].waiting_heartbeats = QueueAfter(b, pk)
            /\ workers[pk].unresponsive /\ ~workers'[pk].unresponsive
                 => CurrentSessionHeartbeat(pk) \/ MiningStartPending(pk)
            /\ ( /\ workers[pk].unresponsive
                 /\ ~CurrentSessionHeartbeat(pk)
                 /\ ~MiningStartPending(pk) )
                 => workers'[pk].unresponsive ]_vars

\* The worker, in session 2 and unresponsive, has answered in the latest
\* block a challenge with the session_id of session 1: the entry is gone, one
\* entry is left, and the worker is still unresponsive.
C11_Witness ==
    /\ last_call.op = "process_messages"
    /\ Mining(1)
    /\ workers[1].state.mining_state[1].session_id = 2
    /\ workers[1].unresponsive
    /\ ~workers[1].heartbeat_flag
    /\ workers[1].last_heartbeat_at_block = last_call.block
    /\ Len(workers[1].waiting_heartbeats) = 1
    /\ workers[1].last_heartbeat_for_block < Head(workers[1].waiting_heartbeats)
    /\ workers[1].last_gk_responsive_event_at_block < last_call.block

\* The heartbeat is not of the session the worker is in, or the worker is in
\* none.
Stale(pk, session_id) ==
    \/ is_none(workers[pk].state.mining_state)
    \/ session_id # workers[pk].state.mining_state[1].session_id

\* The processor st, which has handled one heartbeat of the worker from the
\* state of the Gatekeeper, has left the tokenomic record, heartbeat_flag, the
\* parameters and the report of the block as they were.
TokenomicUntouched(b, pk, st) ==
    /\ st.ws[pk].tokenomic = workers[pk].tokenomic
    /\ st.ws[pk].heartbeat_flag = workers[pk].heartbeat_flag
    /\ st.report = NewReport(BlockInfo(b))
    /\ st.params = tokenomic_params

\* Every stale heartbeat of the worker, handled in block b, leaves the
\* tokenomic record, heartbeat_flag and the report untouched.
StaleHeartbeats(b, sum_share, pk) ==
    \A s \in 1..3 : \A it \in {0, 100} : \A cb \in ChallengeBlocks(pk) :
       Stale(pk, s) =>
         TokenomicUntouched(b, pk,
           process_mining_report(ProcessorState(BlockInfo(b), sum_share),
                                 BlockInfo(b), sum_share,
                                 Heartbeat(Worker(pk), s, cb, block_ts(cb), it)))

\* C12: in every reachable state and block, handling a Heartbeat of a known
\* worker whose session_id is not that of the worker's mining session, or
\* that comes while the worker has no mining_state, leaves every field of the
\* worker's TokenomicInfo as it was, does not set heartbeat_flag and adds no
\* settle entry (nor any other entry) to the report.
C12_SessionIsolation ==
    \A pk \in DOMAIN workers : \A b \in NextBlocks(last_call.block) :
      StaleHeartbeats(b, SumShare(workers), pk)

\* The worker, whose session the pallet had stopped, has answered its pending
\* challenge in the latest block: the entry is gone, and nothing was paid or
\* reported.
C12_Witness ==
    /\ last_call.op = "process_messages"
    /\ ~last_call.again
    /\ 1 \in DOMAIN workers
    /\ ~Mining(1)
    /\ workers[1].tokenomic.v_update_block > 0
    /\ workers[1].tokenomic.v_update_block < last_call.block
    /\ workers[1].last_heartbeat_at_block = last_call.block
    /\ workers[1].waiting_heartbeats = << >>
    /\ ~workers[1].heartbeat_flag
    /\ workers[1].tokenomic.total_payout_count = 0
    /\ egress = << >>

-----------------------------------------------------------------------------
(* MiningStart *)

\* The TokenomicInfo a MiningStart{init_v, init_p} handled in block b leaves,
\* for a worker whose confidence_level was c.
FreshTokenomic(b, init_v, init_p, c) ==
    [ v |-> init_v, v_init |-> init_v, payable |-> Zero,
      v_update_at |-> block_ts(b), v_update_block |-> b,
      iteration_last |-> 0, challenge_time_last |-> block_ts(b),
      p_bench |-> init_p * Scale, p_instant |-> init_p * Scale,
      confidence_level |-> c,
      last_payout |-> Zero, last_payout_at_block |-> 0,
      total_payout |-> Zero, total_payout_count |-> 0,
      last_slash |-> Zero, last_slash_at_block |-> 0,
      total_slash |-> Zero, total_slash_count |-> 0 ]

\* The processor st, which has handled a MiningStart{init_v, init_p} of the
\* pallet for the worker in block b from the state of the Gatekeeper.
StartedFresh(b, pk, init_v, init_p, st) ==
    /\ st.panic = NoPanic
    /\ st.ws[pk].tokenomic
         = FreshTokenomic(b, init_v, init_p, workers[pk].tokenomic.confidence_level)
    /\ ~st.ws[pk].unresponsive
    /\ st.ws[pk].waiting_heartbeats = workers[pk].waiting_heartbeats
    /\ is_some(st.ws[pk].state.mining_state)

\* Every MiningStart of the pallet for the worker, handled in block b.
MiningStarts(b, pk) ==
    \A s \in {1, 2} : \A init_v \in {Zero, Fp(31) + 1} : \A init_p \in {1, 100} :
       StartedFresh(b, pk, init_v, init_p,
          process_system_event(ProcessorState(BlockInfo(b), Zero), BlockInfo(b),
                               MiningStart(Pallet, pk, s, init_v, init_p)))

\* C13: in every reachable state, in the block that follows, right after a MiningStart{init_v,
\* init_p} of the pallet for a known worker is handled, the worker has
\* v = v_init = from_bits(init_v), payable = 0, p_bench = p_instant = init_p,
\* v_update_block = the block, every payout and slash counter and total 0,
\* unresponsive = false, and the confidence_level and the waiting_heartbeats
\* it had.
C13_MiningStartReset ==
    \A pk \in DOMAIN workers :
       MiningStarts(IF last_call.block < MaxBlock THEN last_call.block + 1
                    ELSE MaxBlock, pk)

\* The latest block has handled the MiningStart of session 2 for the worker,
\* which an earlier block had found unresponsive and slashed: the worker is
\* responsive, its counters are zero, its v is v_init, its confidence_level
\* is the one it had.
C13_Witness ==
    /\ last_call.op = "process_messages"
    /\ ~last_call.again
    /\ Mining(1)
    /\ workers[1].state.mining_state[1].session_id = 2
    /\ workers[1].last_gk_responsive_event = "EnterUnresponsive"
    /\ workers[1].last_gk_responsive_event_at_block < last_call.block
    /\ ~workers[1].unresponsive
    /\ workers[1].tokenomic.v = Fp(1)
    /\ workers[1].tokenomic.v_init = Fp(1)
    /\ workers[1].tokenomic.payable = Zero
    /\ workers[1].tokenomic.v_update_block = last_call.block
    /\ workers[1].tokenomic.challenge_time_last = block_ts(last_call.block)
    /\ workers[1].tokenomic.confidence_level = 2
    /\ workers[1].tokenomic.total_payout_count = 0
    /\ workers[1].tokenomic.total_slash_count = 0

-----------------------------------------------------------------------------
(* The worker map *)

\* The pubkeys for which a Registered of the pallet waits in the system inbox.
RegisteredByPallet ==
    { system_events[i].pubkey : i \in
        { j \in 1..Len(system_events) :
             /\ is_pallet(system_events[j].origin)
             /\ system_events[j].event = "Registered" } }

\* Every message in the mining and system inboxes names a pubkey that has no
\* WorkerInfo and is not a Registered of the pallet; there is at least one.
OnlyUnknownNamed ==
    /\ Len(mining_events) + Len(system_events) > 0
    /\ \A i \in 1..Len(mining_events) :
          /\ mining_events[i].origin.tag = "Worker"
          /\ mining_events[i].origin.pubkey \notin DOMAIN workers
    /\ \A i \in 1..Len(system_events) :
          /\ system_events[i].event # "HeartbeatChallenge"
          /\ system_events[i].pubkey \notin DOMAIN workers
          /\ ~(is_pallet(system_events[i].origin) /\ system_events[i].event = "Registered")

\* Every message in the mining and system inboxes is a Registered of the
\* pallet for the worker; there is at least one.
OnlyRegisteredAgain(pk) ==
    /\ mining_events = << >>
    /\ system_events # << >>
    /\ \A i \in 1..Len(system_events) :
          /\ is_pallet(system_events[i].origin)
          /\ system_events[i].event = "Registered"
          /\ system_events[i].pubkey = pk

\* The workers a call for the block leaves when only the gatekeeper inbox is
\* handled: the post-block pass over the workers as they are.
WithoutWorkerEvents(b) ==
    process(ProcessorState(BlockInfo(b), SumShare(workers)), BlockInfo(b),
            SumShare(workers), << >>, << >>, gatekeeper_events).ws

\* The entry with the confidence_level of the Registered event.
WithConfidence(w, c) == [w EXCEPT !.tokenomic.confidence_level = c]

\* C14: no step removes an entry of the worker map, and only a call of
\* process_messages that processes the block adds entries: one for each
\* pubkey a Registered of the pallet names and that had none.  A block whose
\* events all name pubkeys without an entry (and are no Registered of the
\* pallet) leaves the map as a block without those events does, so no such
\* pubkey is mining afterwards.  A block whose events are Registered events
\* for a worker that has an entry leaves that entry as a block without them
\* does, but for the confidence_level of the event.
C14_OnlyRegisteredCreates ==
    [][ /\ DOMAIN workers \subseteq DOMAIN workers'
        /\ (\A b \in 1..MaxBlock : ~Processes(b)) => workers' = workers
        /\ \A b \in 1..MaxBlock :
             Processes(b) =>
               /\ DOMAIN workers' = DOMAIN workers \cup RegisteredByPallet
               /\ OnlyUnknownNamed => workers' = WithoutWorkerEvents(b)
               /\ \A pk \in DOMAIN workers :
                    OnlyRegisteredAgain(pk) =>
                      /\ workers'[pk]
                           = WithConfidence(WithoutWorkerEvents(b)[pk],
                                            system_events[Len(system_events)].confidence_level)
                      /\ workers'[pk].waiting_heartbeats = workers[pk].waiting_heartbeats
                      /\ workers'[pk].state = workers[pk].state
                      /\ workers'[pk].tokenomic.v_init = workers[pk].tokenomic.v_init
      ]_vars

\* Three messages have been handled after the master pubkey was on chain,
\* none of them a Registered of the pallet: the worker map is still empty.
C14_Witness ==
    /\ last_call.op = "process_messages"
    /\ master_pubkey_on_chain
    /\ budget.msgs = MaxMsgs
    /\ mining_events = << >>
    /\ system_events = << >>
    /\ gatekeeper_events = << >>
    /\ tokenomic_params = test_params
    /\ workers = << >>

-----------------------------------------------------------------------------
(* Input that is dropped *)

\* The processor st, which has handled one heartbeat of the worker for the
\* challenge block cb in block b from the state of the Gatekeeper, has not
\* panicked and has changed nothing but the two telemetry fields.
OnlyTelemetry(b, pk, cb, st) ==
    /\ st.panic = NoPanic
    /\ st.ws = [workers EXCEPT ![pk].last_heartbeat_at_block = b,
                               ![pk].last_heartbeat_for_block = cb]
    /\ st.report = NewReport(BlockInfo(b))
    /\ st.params = tokenomic_params

\* The processor st has handled one message from the state of the Gatekeeper
\* and has changed nothing.
Dropped(b, st) ==
    /\ st.panic = NoPanic
    /\ st.ws = workers
    /\ st.report = NewReport(BlockInfo(b))
    /\ st.params = tokenomic_params

\* The heartbeat of the worker for the challenge block cb, handled in block b.
HeartbeatHandled(b, pk, s, cb) ==
    process_mining_report(ProcessorState(BlockInfo(b), SumShare(workers)),
                          BlockInfo(b), SumShare(workers),
                          Heartbeat(Worker(pk), s, cb, block_ts(cb), 0))

\* C15: in every reachable state and block, a mining report or a system
\* event of the wrong origin and a heartbeat of an unknown worker change
\* nothing; a heartbeat of a session the worker is not in that answers the
\* front of the queue, and a second heartbeat for the challenge block the
\* worker has answered last, change nothing but last_heartbeat_at_block and
\* last_heartbeat_for_block; none of them aborts the process.
C15_DropAndLog ==
    \A b \in NextBlocks(last_call.block) :
      /\ Dropped(b, process_mining_report(ProcessorState(BlockInfo(b), Zero), BlockInfo(b),
                                           Zero, Heartbeat(Pallet, 1, 0, 0, 0)))
      /\ Dropped(b, process_system_event(ProcessorState(BlockInfo(b), Zero), BlockInfo(b),
                                          MiningStop(Worker(1), 1)))
      /\ \A pk \in PubKeys \ DOMAIN workers :
            Dropped(b, HeartbeatHandled(b, pk, 1, 0))
      /\ \A pk \in DOMAIN workers : \A s \in {1, 2} :
            /\ Stale(pk, s) /\ workers[pk].waiting_heartbeats # << >>
                 => OnlyTelemetry(b, pk, Head(workers[pk].waiting_heartbeats),
                       HeartbeatHandled(b, pk, s, Head(workers[pk].waiting_heartbeats)))
            /\ workers[pk].last_heartbeat_for_block > 0
                 => OnlyTelemetry(b, pk, workers[pk].last_heartbeat_for_block,
                       HeartbeatHandled(b, pk, s, workers[pk].last_heartbeat_for_block))

-----------------------------------------------------------------------------
(* Settlements *)

\* No entry of the settle list has a payout of zero.
NoZeroPayout(settle) == \A i \in 1..Len(settle) : settle[i].payout # Zero

\* C16: in every reachable state and block, a heartbeat of the current
\* session that answers the front of the queue of a mining, responsive worker
\* adds a settle entry only with a payout that is not zero: when
\* update_v_heartbeat returns (0, 0) the report stays empty.
C16_SettleOnlyNonZero ==
    \A pk \in DOMAIN workers : \A b \in NextBlocks(last_call.block) :
       ( /\ Mining(pk)
         /\ ~workers[pk].unresponsive
         /\ workers[pk].waiting_heartbeats # << >> )
       => NoZeroPayout(HeartbeatHandled(b, pk, workers[pk].state.mining_state[1].session_id,
                                        Head(workers[pk].waiting_heartbeats)).report.settle)

\* The MiningStop events of the pallet for the worker in the system inbox.
MiningStopsOf(pk) ==
    { i \in 1..Len(system_events) :
         /\ is_pallet(system_events[i].origin)
         /\ system_events[i].pubkey = pk
         /\ system_events[i].event = "MiningStop" }

\* The heartbeats in the mining inbox that settle a payout for the worker:
\* those of its session, when it is mining and responsive.
SettlingHeartbeatsOf(pk) ==
    IF Mining(pk) /\ ~workers[pk].unresponsive
    THEN { i \in HeartbeatsOf(pk) :
             mining_events[i].session_id = workers[pk].state.mining_state[1].session_id }
    ELSE {}

\* What C17 promises of a block that handles MiningStop events for the worker:
\* one settle entry for each, with payout 0, treasury 0 and the v the worker
\* has at the end of the block, besides the entries of its heartbeats; the
\* worker is not mining, and the post-block pass has not touched its
\* tokenomic record.
StoppedAndReported(b, pk) ==
    /\ Len(egress') = 1
    /\ Cardinality(SettledFor(pk, egress'[1].body.settle))
         = Cardinality(SettlingHeartbeatsOf(pk)) + Cardinality(MiningStopsOf(pk))
    /\ Cardinality({ i \in SettledFor(pk, egress'[1].body.settle) :
                        /\ egress'[1].body.settle[i].payout = Zero
                        /\ egress'[1].body.settle[i].treasury = Zero
                        /\ egress'[1].body.settle[i].v = workers'[pk].tokenomic.v })
         >= Cardinality(MiningStopsOf(pk))
    /\ is_none(workers'[pk].state.mining_state)
    /\ workers'[pk].tokenomic = Drained(BlockInfo(b)).ws[pk].tokenomic

\* C17 as stated: a block that handles MiningStop events of the pallet for a
\* known worker reports one settle entry {pubkey, v, 0, 0} for each, leaves
\* the worker without mining_state and applies no idle or slash update to
\* it, the v reported being the v at the end of the block.
C17_MiningStop_AsStated ==
    [][ \A b \in 1..MaxBlock : \A pk \in DOMAIN workers :
          Processes(b) /\ MiningStopsOf(pk) # {} => StoppedAndReported(b, pk) ]_vars

\* C17, amended: the same, when the block handles no MiningStart for the
\* worker.
C17_MiningStop ==
    [][ \A b \in 1..MaxBlock : \A pk \in DOMAIN workers :
          Processes(b) /\ MiningStopsOf(pk) # {} /\ ~MiningStartPending(pk)
            => StoppedAndReported(b, pk) ]_vars

\* The latest block has stopped the worker, which had been rewarded for idle
\* blocks: it is not mining, and the report holds one entry with its v and no
\* payout.
C17_Witness ==
    /\ last_call.op = "process_messages"
    /\ ~last_call.again
    /\ 1 \in DOMAIN workers
    /\ ~Mining(1)
    /\ workers[1].tokenomic.v > workers[1].tokenomic.v_init
    /\ workers[1].tokenomic.v_update_block < last_call.block
    /\ Len(egress) = 1
    /\ egress[1].body.settle
         = << SettleInfo(1, workers[1].tokenomic.v, Zero, Zero) >>
    /\ egress[1].body.offline = << >>
    /\ egress[1].body.recovered_to_online = << >>

-----------------------------------------------------------------------------
(* The randomness beacon and the distribution of the master key *)

\* The step is a call of emit_random_number(b).
IsEmitRandomNumber(b) ==
    /\ budget'.calls = budget.calls + 1
    /\ last_call'.op = "emit_random_number"
    /\ last_call'.block = b

\* The step is a call of share_master_key(_, _, b).
IsShareMasterKey(b) ==
    /\ budget'.calls = budget.calls + 1
    /\ last_call'.op = "share_master_key"
    /\ last_call'.block = b

\* C18: a call of emit_random_number(b) with b mod 5 = 0 pushes exactly one
\* message, NewRandomNumber{b, next_random_number(master_key, b,
\* last_random_number), last_random_number}, and then last_random_number is
\* the new random number; with b mod 5 # 0 it pushes nothing and leaves
\* last_random_number as it is.  In both cases it leaves every other part of
\* the state alone.
C18_EmitRandomNumber ==
    [][ \A b \in 1..MaxBlock :
          IsEmitRandomNumber(b) =>
            /\ IF b % 5 = 0
               THEN /\ Len(egress') = 1
                    /\ egress'[1].topic = "NewRandomNumber"
                    /\ egress'[1].body
                         = [ block_number |-> b,
                             random_number |-> << last_random_number, b, MasterKey >>,
                             last_random_number |-> last_random_number ]
                    /\ last_random_number' = << last_random_number, b, MasterKey >>
               ELSE /\ egress' = << >>
                    /\ last_random_number' = last_random_number
            /\ UNCHANGED << master_pubkey_on_chain, registered_on_chain, egress_dummy,
                            mining_events, system_events, gatekeeper_events, workers,
                            iv_seq, tokenomic_params, panicked >> ]_vars

\* The latest call has emitted the random number of block 10, chained to the
\* one of block 5.
C18_Witness ==
    /\ last_call = [ op |-> "emit_random_number", block |-> 10, again |-> FALSE ]
    /\ Len(egress) = 1
    /\ egress[1].body.last_random_number = << ZeroRandom, 5, MasterKey >>
    /\ last_random_number = << << ZeroRandom, 5, MasterKey >>, 10, MasterKey >>
    /\ egress[1].body.random_number = last_random_number

\* C20: iv_seq starts at 0; a call of share_master_key derives the IV from
\* the block number and the current iv_seq and leaves iv_seq greater by
\* exactly 1; no other step changes iv_seq.  So iv_seq counts the keys
\* dispatched, and no two dispatches derive their IV from the same iv_seq.
C20_IvSeqNeverReused ==
    /\ iv_seq = 0
    /\ [][ /\ \A b \in 1..MaxBlock :
                IsShareMasterKey(b) =>
                  /\ iv_seq' = iv_seq + 1
                  /\ Len(egress') = 1
                  /\ egress'[1].topic = "MasterKeyDistribution"
                  /\ egress'[1].body.iv = << MasterKey, b, iv_seq >>
           /\ (\A b \in 1..MaxBlock : ~IsShareMasterKey(b)) => iv_seq' = iv_seq ]_vars

\* Two keys have been dispatched in the same block, with other calls of the
\* facade between them: the second IV was derived from iv_seq = 1.
C20_Witness ==
    /\ last_call.op = "share_master_key"
    /\ iv_seq = 2
    /\ budget.calls = 4
    /\ last_random_number # ZeroRandom
    /\ Len(egress) = 1
    /\ egress[1].body.iv = << MasterKey, last_call.block, 1 >>

-----------------------------------------------------------------------------
(* Verification of the random numbers on the chain *)

\* The random number of the event is not the one next_random_number gives
\* for the block number and the previous random number of the event.
Tampered(msg) ==
    /\ msg.event = "NewRandomNumber"
    /\ msg.random_number
         # << msg.last_random_number, msg.block_number, MasterKey >>

\* The gatekeeper inbox holds a tampered NewRandomNumber.
TamperedPending ==
    \E i \in 1..Len(gatekeeper_events) : Tampered(gatekeeper_events[i])

\* The gatekeeper inbox holds a tampered NewRandomNumber sent by a
\* gatekeeper.
TamperedByGatekeeperPending ==
    \E i \in 1..Len(gatekeeper_events) :
       /\ Tampered(gatekeeper_events[i])
       /\ gatekeeper_events[i].origin.tag = "Gatekeeper"

\* The gatekeeper inbox holds NewRandomNumber events only, one at least.
OnlyRandomNumbersPending ==
    /\ gatekeeper_events # << >>
    /\ \A i \in 1..Len(gatekeeper_events) :
         gatekeeper_events[i].event = "NewRandomNumber"

\* The processor a call for the block leaves when the gatekeeper inbox is
\* empty.
WithoutGatekeeperEvents(b) ==
    process(ProcessorState(BlockInfo(b), SumShare(workers)), BlockInfo(b),
            SumShare(workers), mining_events, system_events, << >>)

\* The step has left what the processor st leaves, and has kept
\* last_random_number.
LeftAs(st) ==
    /\ panicked' = st.panic
    /\ last_random_number' = last_random_number
    /\ st.panic = NoPanic =>
         /\ workers' = st.ws
         /\ tokenomic_params' = st.params
         /\ egress' = IF is_empty(st.report) THEN << >>
                      ELSE << Pushed("MiningInfoUpdateEvent", st.report) >>

-----------------------------------------------------------------------------
(* Suppression of the egress *)

\* The step is a call of the facade that returns: what it has pushed is the
\* egress after the step.
IsCall == budget'.calls = budget.calls + 1 /\ panicked' = NoPanic

\* C21: in every reachable state the egress is a dummy exactly when
\* registered_on_chain is false.  The messages a call pushes
\* (MiningInfoUpdateEvent, NewRandomNumber, MasterKeyDistribution) are sent
\* exactly when the Gatekeeper is registered on chain at the call; and the
\* state advances while it is not: the workers are those the processor
\* leaves, the random number of a multiple of 5 is chained, iv_seq is
\* counted.
C21_EgressSuppression ==
    /\ [](egress_dummy = ~registered_on_chain)
    /\ [][ /\ IsCall =>
                \A i \in 1..Len(egress') : egress'[i].sent = registered_on_chain
           /\ \A b \in 1..MaxBlock :
                ~registered_on_chain =>
                  /\ Processes(b) => workers' = Processed(BlockInfo(b)).ws
                  /\ IsEmitRandomNumber(b) /\ b % 5 = 0
                       => last_random_number' # last_random_number
                  /\ IsShareMasterKey(b) => iv_seq' = iv_seq + 1 ]_vars

\* The Gatekeeper is not registered on chain; the latest call has registered
\* a worker and settled its MiningStop, and the report it has pushed is not
\* sent.
C21_Witness ==
    /\ ~registered_on_chain
    /\ last_call.op = "process_messages"
    /\ 1 \in DOMAIN workers
    /\ Len(egress) = 1
    /\ egress[1].topic = "MiningInfoUpdateEvent"
    /\ Len(egress[1].body.settle) = 1
    /\ ~egress[1].sent

-----------------------------------------------------------------------------
(* The order of the drain *)

\* The messages of the three inboxes in one queue: the mining reports in
\* their order, then the system events, then the gatekeeper events.
InPriorityOrder ==
    [ i \in 1..Len(mining_events) |-> [ inbox |-> "mining", msg |-> mining_events[i] ] ]
    \o [ i \in 1..Len(system_events) |-> [ inbox |-> "system", msg |-> system_events[i] ] ]
    \o [ i \in 1..Len(gatekeeper_events)
           |-> [ inbox |-> "gatekeeper", msg |-> gatekeeper_events[i] ] ]

\* The handler of the inbox applied to one message.
HandledOne(st, block, sum_share, m) ==
    IF m.inbox = "mining" THEN process_mining_report(st, block, sum_share, m.msg)
    ELSE IF m.inbox = "system" THEN process_system_event(st, block, m.msg)
    ELSE process_gatekeeper_event(st, m.msg)

\* The messages of the queue handled one after the other, up to a panic.
RECURSIVE HandledInOrder(_, _, _, _)
HandledInOrder(st, block, sum_share, queue) ==
    IF queue = << >> \/ st.panic # NoPanic THEN st
    ELSE HandledInOrder(HandledOne(st, block, sum_share, Head(queue)),
                        block, sum_share, Tail(queue))

\* The processor after all the messages, in the order of priority, and then
\* the post-block pass.
InOrderThenPost(b) ==
    process_post(HandledInOrder(prepare(ProcessorState(BlockInfo(b), SumShare(workers))),
                                BlockInfo(b), SumShare(workers), InPriorityOrder),
                 BlockInfo(b))

\* C22: a call of process_messages that processes the block leaves what
\* handling every mining report in FIFO order, then every system event in
\* FIFO order, then every gatekeeper event in FIFO order, and then the
\* post-block pass leave; when it returns the three inboxes are empty.
C22_DrainOrder ==
    [][ \A b \in 1..MaxBlock :
          IsProcessMessages(b) /\ master_pubkey_on_chain =>
            /\ LeftAs(InOrderThenPost(b))
            /\ panicked' = NoPanic =>
                 /\ mining_events' = << >>
                 /\ system_events' = << >>
                 /\ gatekeeper_events' = << >> ]_vars

\* A call had messages in the three inboxes and has handled the mining
\* report and the system event before the gatekeeper event, a tampered
\* random number, which has poisoned it.
C22_Witness ==
    /\ last_call.op = "process_messages"
    /\ panicked = RandomPoisoned
    /\ mining_events # << >>
    /\ system_events # << >>
    /\ Len(gatekeeper_events) = 1
    /\ TamperedByGatekeeperPending

-----------------------------------------------------------------------------
(* The order of the settle list *)

\* The handler of the message m has taken the processor from st to nxt: it
\* has left the settle list as it was, or has appended one entry to it, for
\* the worker that sent the heartbeat or that the MiningStop names (with no
\* payout).
AppendsOwn(st, nxt, m) ==
    \/ nxt.panic # NoPanic
    \/ nxt.report.settle = st.report.settle
    \/ /\ Len(nxt.report.settle) = Len(st.report.settle) + 1
       /\ SubSeq(nxt.report.settle, 1, Len(st.report.settle)) = st.report.settle
       /\ \/ /\ m.inbox = "mining"
             /\ nxt.report.settle[Len(nxt.report.settle)].pubkey = m.msg.origin.pubkey
          \/ /\ m.inbox = "system"
             /\ m.msg.event = "MiningStop"
             /\ nxt.report.settle[Len(nxt.report.settle)].pubkey = m.msg.pubkey
             /\ nxt.report.settle[Len(nxt.report.settle)].payout = 0

\* Every message of the queue, handled in its turn from the processor st,
\* appends its own entry or none.
RECURSIVE SettlesInOrder(_, _, _, _)
SettlesInOrderFrom(st, nxt, block, sum_share, queue) ==
    AppendsOwn(st, nxt, Head(queue)) /\ SettlesInOrder(nxt, block, sum_share, Tail(queue))

SettlesInOrder(st, block, sum_share, queue) ==
    \/ queue = << >>
    \/ st.panic # NoPanic
    \/ SettlesInOrderFrom(st, HandledOne(st, block, sum_share, Head(queue)),
                          block, sum_share, queue)

\* The settle list when the last message of the call has been handled.
SettleGenerated(b) ==
    HandledInOrder(prepare(ProcessorState(BlockInfo(b), SumShare(workers))),
                   BlockInfo(b), SumShare(workers), InPriorityOrder).report.settle

\* The settle list the step has pushed.
SettlePushed == IF egress' = << >> THEN << >> ELSE egress'[1].body.settle

\* C23: in a call of process_messages that processes the block every
\* message appends at most one settle entry, its own, behind the entries of
\* the messages drained before it (the heartbeats in their order, then the
\* MiningStop events in theirs), and the event pushed carries the list so
\* generated, entry for entry.
C23_SettleOrder ==
    [][ \A b \in 1..MaxBlock :
          Processes(b) =>
            /\ SettlesInOrder(prepare(ProcessorState(BlockInfo(b), SumShare(workers))),
                              BlockInfo(b), SumShare(workers), InPriorityOrder)
            /\ SettlePushed = SettleGenerated(b) ]_vars

\* A report with a heartbeat settle that pays, followed by the settle of a
\* MiningStop of the same worker.
C23_Witness ==
    /\ last_call.op = "process_messages"
    /\ Len(egress) = 1
    /\ Len(egress[1].body.settle) = 2
    /\ egress[1].body.settle[1].payout # 0
    /\ egress[1].body.settle[2].payout = 0
    /\ egress[1].body.settle[2].pubkey = egress[1].body.settle[1].pubkey
    /\ is_none(workers[egress[1].body.settle[1].pubkey].state.mining_state)

-----------------------------------------------------------------------------
(* Determinism *)

\* The pubkeys of the list are in strictly ascending order.
Ascending(list) == \A i \in 1..(Len(list) - 1) : list[i] < list[i + 1]

-----------------------------------------------------------------------------
(* The tokenomic parameters *)

\* The pending TokenomicParametersChanged events of the pallet.
ParametersOfPallet ==
    { i \in 1..Len(gatekeeper_events) :
         /\ gatekeeper_events[i].event = "TokenomicParametersChanged"
         /\ gatekeeper_events[i].origin.tag = "Pallet" }

\* The greatest index of the set.
Latest(indices) == CHOOSE i \in indices : \A j \in indices : j <= i

\* The processor a call for the block leaves when the gatekeeper inbox is
\* empty and the post-block pass runs under the parameters.
PostUnder(b, params) ==
    block_post_process(
        [ Drain(prepare(ProcessorState(BlockInfo(b), SumShare(workers))), BlockInfo(b),
                SumShare(workers), mining_events, system_events, << >>)
            EXCEPT !.params = params ],
        BlockInfo(b))

\* C25: no step but a call of process_messages that processes the block
\* changes tokenomic_params, and such a call leaves the parameters of the
\* latest pending TokenomicParametersChanged of the pallet, or the
\* parameters as they were when there is none (the same event of a worker
\* or of a gatekeeper installs nothing).  The mining reports and system
\* events of the block are handled under the old parameters, the post-block
\* pass of the block runs under the new ones.
C25_ParamsOnlyFromPallet ==
    [][ /\ (\A b \in 1..MaxBlock : ~Processes(b)) => tokenomic_params' = tokenomic_params
        /\ \A b \in 1..MaxBlock :
             Processes(b) =>
               /\ tokenomic_params'
                    = IF ParametersOfPallet = {} THEN tokenomic_params
                      ELSE ParamsFrom(gatekeeper_events[Latest(ParametersOfPallet)].params[1])
               /\ workers' = PostUnder(b, tokenomic_params').ws ]_vars

\* The first call that processed a block has registered and started a
\* worker with more than the new v_max and has installed the parameters of
\* the pallet: its post-block pass has capped the v of the worker at the new
\* v_max.
C25_Witness ==
    /\ last_call.op = "process_messages"
    /\ budget.calls = 1
    /\ tokenomic_params = ParamsFrom(AltParameters)
    /\ \E pk \in DOMAIN workers :
         /\ is_some(workers[pk].state.mining_state)
         /\ workers[pk].tokenomic.v_init = Fp(31)
         /\ workers[pk].tokenomic.v = AltParameters.v_max

-----------------------------------------------------------------------------
(* Numeric bounds *)

\* C26: no call of process_messages panics on an arithmetic overflow,
\* underflow or division, whatever TokenomicParameters the pallet has
\* installed.
C26_NoArithmeticPanic == panicked # ArithmeticPanic

-----------------------------------------------------------------------------
(* update_p_instant *)

\* The step is a call of update_p_instant on the record of worker 1.
IsUpdatePInstant ==
    budget'.calls = budget.calls + 1 /\ last_call'.op = "update_p_instant"

\* (iterations - iteration_last) / ((now - challenge_time_last) / 1000) * 6
\* in the fixed-point format, with no bound on its size.
ExactP(diff, elapsed) ==
    (((diff * Scale) * Scale) \div ((elapsed * Scale) \div 1000)) * 6

\* 1.2 * p_bench
PCap(t) == (t.p_bench * FpTenths(12)) \div Scale

\* The smaller of two numbers.
Least(a, b) == IF a <= b THEN a ELSE b

\* The record after update_p_instant(now, iterations) on the record t, as
\* the contract describes it.
PInstantContract(t, after, now, iterations) ==
    IF now <= t.challenge_time_last THEN after = t
    ELSE /\ after.iteration_last = Least(iterations, t.iteration_last)
         /\ after.p_instant
              = Least(ExactP(iterations - after.iteration_last,
                             now - t.challenge_time_last),
                      PCap(t))
         /\ after.p_instant <= PCap(t)
         /\ iterations < t.iteration_last => after.p_instant = Zero
         /\ after = [t EXCEPT !.iteration_last = after.iteration_last,
                              !.p_instant = after.p_instant]

\* C27: a call of update_p_instant(now, iterations) returns, and leaves the
\* record unchanged when now <= challenge_time_last; otherwise it leaves
\* p_instant = min((iterations - iteration_last) / ((now -
\* challenge_time_last) / 1000) * 6, 1.2 * p_bench), at most 1.2 * p_bench,
\* where iteration_last is first set to iterations when iterations is below
\* it, which makes p_instant 0; no other field changes.
C27_UpdatePInstant ==
    [][ IsUpdatePInstant =>
          /\ panicked' = NoPanic
          /\ PInstantContract(workers[1].tokenomic, workers'[1].tokenomic,
                              last_call'.now, last_call'.iterations) ]_vars


-----------------------------------------------------------------------------
(* C28: the post-block pass skips a worker that is not mining *)

\* The post-block pass has left the worker w of the drained processor as it
\* was, and the report pushed lists it neither offline nor recovered.
SkippedByPost(pk, w) ==
    /\ workers'[pk].tokenomic = w.tokenomic
    /\ workers'[pk].unresponsive = w.unresponsive
    /\ \A i \in 1..Len(egress') :
         /\ ~Listed(pk, egress'[i].body.offline)
         /\ ~Listed(pk, egress'[i].body.recovered_to_online)

\* C28: a worker whose mining_state is None when the loop of the block has
\* ended keeps its tokenomic record and its unresponsive flag through the
\* post-block pass and is listed neither in offline nor in
\* recovered_to_online, whatever the age of its pending challenges.
C28_NotMiningSkipped ==
    [][ \A b \in 1..MaxBlock :
          Processes(b) =>
            \A pk \in DOMAIN Drained(BlockInfo(b)).ws :
               is_none(Drained(BlockInfo(b)).ws[pk].state.mining_state) =>
                 SkippedByPost(pk, Drained(BlockInfo(b)).ws[pk]) ]_vars

\* A worker that is not mining has come through a post-block pass with a
\* pending challenge older than the heartbeat window, and is responsive.
C28_Witness ==
    /\ last_call.op = "process_messages"
    /\ panicked = NoPanic
    /\ master_pubkey_on_chain
    /\ \E pk \in DOMAIN workers :
         /\ is_none(workers[pk].state.mining_state)
         /\ ~workers[pk].unresponsive
         /\ workers[pk].waiting_heartbeats # << >>
         /\ last_call.block - Head(workers[pk].waiting_heartbeats)
               > tokenomic_params.heartbeat_window


-----------------------------------------------------------------------------
(* C29: the sum of the shares is that of the start of the call *)

\* The record of the worker when its only heartbeat of the block reaches
\* update_v_heartbeat: mining reports are handled first, so it is the record
\* of the start of the call with the p_instant the heartbeat has set.
AtHeartbeat(pk) ==
    [ workers[pk].tokenomic EXCEPT !.p_instant = workers'[pk].tokenomic.p_instant ]

\* What update_v_heartbeat returns for the worker in block b with the sum of
\* the shares of the workers as they are when the call starts.
PaidOfStartSum(b, pk) ==
    update_v_heartbeat(AtHeartbeat(pk), tokenomic_params, SumShare(workers),
                       BlockInfo(b).now_ms, b)

\* The settle entry is the result of update_v_heartbeat under the sum of the
\* start of the call.
SettledOfStartSum(b, entry) ==
    /\ entry.payout = PaidOfStartSum(b, entry.pubkey).payout
    /\ entry.treasury = PaidOfStartSum(b, entry.pubkey).treasury
    /\ entry.v = PaidOfStartSum(b, entry.pubkey).info.v

\* C29: every payout of a block is computed with the sum of share() over the
\* responsive workers as they are when process_messages starts: the settle
\* entry of a worker with one heartbeat in the block carries the payout,
\* treasury and v that update_v_heartbeat gives under that sum, whatever the
\* heartbeats handled before it in the block have paid.
C29_SumShareOfStart ==
    [][ \A b \in 1..MaxBlock :
          Processes(b) =>
            \A i \in 1..Len(egress') : \A j \in 1..Len(egress'[i].body.settle) :
               PendingHeartbeats(egress'[i].body.settle[j].pubkey) = 1 =>
                 SettledOfStartSum(b, egress'[i].body.settle[j]) ]_vars

\* Under the lowered budget the report of the latest block settles the two
\* workers, each with a payout: the heartbeat and the payout of the first
\* have changed its share before the heartbeat of the second was handled.
C29_Witness ==
    /\ last_call.op = "process_messages"
    /\ tokenomic_params.budget_per_block = LeanParameters.budget_per_block
    /\ Len(egress) = 1
    /\ Len(egress[1].body.settle) = 2
    /\ egress[1].body.settle[1].pubkey # egress[1].body.settle[2].pubkey
    /\ egress[1].body.settle[1].payout > Zero
    /\ egress[1].body.settle[2].payout > Zero


-----------------------------------------------------------------------------
(* C30: the calls of update_v_heartbeat that update nothing *)

\* The step is a call of update_v_heartbeat on the record of worker 1.
IsUpdateVHeartbeat ==
    budget'.calls = budget.calls + 1 /\ last_call'.op = "update_v_heartbeat"

\* One of the four conditions of NO_UPDATE holds for the record and the
\* arguments: the first three are tested before share() is computed.
NoUpdateCase(t, sum_share, block_number) ==
    \/ sum_share = Zero
    \/ t.payable = Zero
    \/ block_number <= t.v_update_block
    \/ share(t) = Zero

\* The call has returned (0, 0) and has left the record as it was.
PaidNothing ==
    /\ panicked' = NoPanic
    /\ last_call'.payout = Zero
    /\ last_call'.treasury = Zero
    /\ workers'[1].tokenomic = workers[1].tokenomic

\* The step is a second call of update_v_heartbeat for the block of the call
\* before it, with the sum of the shares of that block.
SecondOfBlock ==
    /\ IsUpdateVHeartbeat
    /\ last_call.op = "update_v_heartbeat"
    /\ last_call'.block = last_call.block
    /\ last_call'.sum_share = last_call.sum_share

\* C30: update_v_heartbeat returns (0, 0) and changes no field of the record
\* when sum_share is 0, payable is 0, the block is not after v_update_block
\* or share() is 0; a second call for the same block, under the sum of the
\* shares of that block, is such a call.
C30_NoUpdate ==
    [][ /\ IsUpdateVHeartbeat
           /\ NoUpdateCase(workers[1].tokenomic, last_call'.sum_share, last_call'.block)
           => PaidNothing
        /\ SecondOfBlock => PaidNothing ]_vars

\* A call has paid the worker for a block and a second call for the same
\* block has paid nothing.
C30_Witness ==
    /\ budget.calls = 2
    /\ last_call.op = "update_v_heartbeat"
    /\ last_call.payout = Zero
    /\ workers[1].tokenomic.total_payout_count = 1
    /\ workers[1].tokenomic.last_payout > Zero
    /\ workers[1].tokenomic.v_update_block = last_call.block


-----------------------------------------------------------------------------
(* C31: the payout of update_v_heartbeat *)

\* The only pending message of the call is a heartbeat of worker 1 that the
\* handler accepts: the worker is mining in the session of the heartbeat,
\* responsive, and the heartbeat answers its only pending challenge, so that
\* the post-block pass leaves the record as the payout has left it.
OnlyAcceptedHeartbeat ==
    /\ Len(mining_events) = 1
    /\ system_events = << >>
    /\ gatekeeper_events = << >>
    /\ mining_events[1].origin = Worker(1)
    /\ 1 \in DOMAIN workers
    /\ is_some(workers[1].state.mining_state)
    /\ workers[1].state.mining_state[1].session_id = mining_events[1].session_id
    /\ ~workers[1].unresponsive
    /\ workers[1].waiting_heartbeats = << mining_events[1].challenge_block >>

\* The record of worker 1 when the heartbeat reaches update_v_heartbeat in
\* block b.
BeforePayout(b) ==
    update_p_instant(workers[1].tokenomic, BlockInfo(b).now_ms, mining_events[1].iterations)

\* share / sum_share * budget_per_block * (block - v_update_block) * payout_ration
ToPayout(t, sum_share, b) ==
    FMul(FMul(FMul(FDiv(share(t), sum_share), tokenomic_params.budget_per_block),
              FromNum(b - t.v_update_block)),
         tokenomic_params.payout_ration)

\* The call has paid the record t the payout: the record of worker 1 and the
\* settle entry pushed are as C31 states.
PaidAsStated(t, b, payout) ==
    /\ panicked' = NoPanic
    /\ payout <= t.payable
    /\ payout <= ToPayout(t, SumShare(workers), b)
    /\ Len(egress') = 1
    /\ Len(egress'[1].body.settle) = 1
    /\ egress'[1].body.settle[1].pubkey = 1
    /\ egress'[1].body.settle[1].payout = payout
    /\ egress'[1].body.settle[1].v = t.v - payout
    /\ workers'[1].tokenomic.v = t.v - payout
    /\ workers'[1].tokenomic.payable = Zero
    /\ workers'[1].tokenomic.v_update_block = b
    /\ workers'[1].tokenomic.last_payout = payout
    /\ workers'[1].tokenomic.total_payout = t.total_payout + payout
    /\ workers'[1].tokenomic.total_payout_count = t.total_payout_count + 1

\* C31: when update_v_heartbeat pays, the payout is min(payable, to_payout)
\* with to_payout = share / sum_share * budget_per_block
\* * (block - v_update_block) * payout_ration; afterwards v is the v before
\* minus the payout, payable is 0, v_update_block is the block, last_payout
\* is the payout, total_payout has grown by the payout and
\* total_payout_count by 1, and the settle entry carries the v after the
\* payout.
C31_Payout ==
    [][ \A b \in 1..MaxBlock :
          /\ IsProcessMessages(b)
          /\ master_pubkey_on_chain
          /\ OnlyAcceptedHeartbeat
          /\ ~NoUpdateCase(BeforePayout(b), SumShare(workers), b)
          => PaidAsStated(BeforePayout(b), b,
                          FMin(BeforePayout(b).payable,
                               ToPayout(BeforePayout(b), SumShare(workers), b))) ]_vars


-----------------------------------------------------------------------------
(* C32: the economic outcome of the post-block pass *)

\* The worker w, as the loop of block b has left it, enters unresponsive in
\* the post-block pass of the block.
Enters(b, w) ==
    /\ ~w.unresponsive
    /\ w.waiting_heartbeats # << >>
    /\ b - Head(w.waiting_heartbeats) > tokenomic_params'.heartbeat_window

\* The worker w is unresponsive after the transition of the block.
UnresponsiveAfter(b, w) ==
    \/ w.unresponsive /\ ~w.heartbeat_flag
    \/ Enters(b, w)

\* The one outcome of the mining worker w in the post-block pass of block b.
OneOutcome(b, pk, w) ==
    /\ workers'[pk].unresponsive = UnresponsiveAfter(b, w)
    /\ workers'[pk].tokenomic
         = IF UnresponsiveAfter(b, w)
           THEN update_v_slash(w.tokenomic, tokenomic_params', b)
           ELSE IF ~w.heartbeat_flag
           THEN update_v_idle(w.tokenomic, tokenomic_params')
           ELSE w.tokenomic
    /\ UnresponsiveAfter(b, w) =>
         /\ workers'[pk].tokenomic.total_slash_count = w.tokenomic.total_slash_count + 1
         /\ workers'[pk].tokenomic.last_slash_at_block = b
    /\ ~UnresponsiveAfter(b, w) =>
         workers'[pk].tokenomic.total_slash_count = w.tokenomic.total_slash_count

\* C32: in the post-block pass a mining worker gets one of three outcomes,
\* decided after the transition of its unresponsive flag in the block:
\* update_v_slash once when it is unresponsive (a worker that enters
\* unresponsive in the block included), update_v_idle once when it is
\* responsive and no heartbeat of it was accepted in the block, and no
\* update when it is responsive and a heartbeat was accepted (a worker that
\* recovers in the block included).
C32_OneOutcome ==
    [][ \A b \in 1..MaxBlock :
          Processes(b) =>
            \A pk \in DOMAIN Drained(BlockInfo(b)).ws :
               is_some(Drained(BlockInfo(b)).ws[pk].state.mining_state) =>
                 OneOutcome(b, pk, Drained(BlockInfo(b)).ws[pk]) ]_vars

\* A worker that was slashed in an earlier block has recovered in the latest
\* block, which has neither slashed it nor raised its v.
C32_Witness ==
    /\ last_call.op = "process_messages"
    /\ panicked = NoPanic
    /\ Mining(1)
    /\ ~workers[1].unresponsive
    /\ workers[1].heartbeat_flag
    /\ workers[1].last_gk_responsive_event = "ExitUnresponsive"
    /\ workers[1].last_gk_responsive_event_at_block = last_call.block
    /\ workers[1].tokenomic.total_slash_count = 1
    /\ workers[1].tokenomic.last_slash_at_block < last_call.block


-----------------------------------------------------------------------------
(* C33: payable accrues while v is pinned at v_max *)

\* The post-block pass of block b has run update_v_idle on the record t: v is
\* capped at v_max and payable takes the whole of delta_v.
IdledWithCap(pk, t, delta_v) ==
    /\ workers'[pk].tokenomic.v
         = (IF t.v + delta_v <= tokenomic_params'.v_max
            THEN t.v + delta_v ELSE tokenomic_params'.v_max)
    /\ workers'[pk].tokenomic.payable = t.payable + delta_v

\* The call has paid worker 1, whose v was v_max: v is v_max minus the
\* payout of the settle entry, and payable is 0.
PaidFromCap ==
    /\ panicked' = NoPanic
    /\ Len(egress') = 1
    /\ Len(egress'[1].body.settle) = 1
    /\ workers'[1].tokenomic.v = tokenomic_params.v_max - egress'[1].body.settle[1].payout
    /\ workers'[1].tokenomic.v >= Zero
    /\ workers'[1].tokenomic.payable = Zero

\* C33: update_v_idle sets v to min(v + delta_v, v_max) and adds the whole
\* delta_v to payable, so that payable grows while v stays at v_max; a
\* payout that follows is taken from the capped v: the worker paid p at
\* v = v_max is left with v = v_max - p and payable = 0.
C33_IdleAtCap ==
    [][ \A b \in 1..MaxBlock :
          /\ Processes(b) =>
               \A pk \in DOMAIN Drained(BlockInfo(b)).ws :
                  /\ is_some(Drained(BlockInfo(b)).ws[pk].state.mining_state)
                  /\ ~UnresponsiveAfter(b, Drained(BlockInfo(b)).ws[pk])
                  /\ ~Drained(BlockInfo(b)).ws[pk].heartbeat_flag
                  => IdledWithCap(pk, Drained(BlockInfo(b)).ws[pk].tokenomic,
                                  idle_delta_v(Drained(BlockInfo(b)).ws[pk].tokenomic,
                                               tokenomic_params'))
          /\ ( /\ IsProcessMessages(b)
               /\ master_pubkey_on_chain
               /\ OnlyAcceptedHeartbeat
               /\ workers[1].tokenomic.v = tokenomic_params.v_max
               /\ ~NoUpdateCase(BeforePayout(b), SumShare(workers), b) )
             => PaidFromCap ]_vars


-----------------------------------------------------------------------------
(* C34: the two rations of the parameters *)

\* C34: in every reachable state treasury_ration + payout_ration is 1, for
\* the parameters of the construction and after every replacement by a
\* TokenomicParametersChanged of the pallet, whatever treasury_ratio the
\* event carries.
C34_RationsSumToOne ==
    tokenomic_params.treasury_ration + tokenomic_params.payout_ration = One


-----------------------------------------------------------------------------
(* C35: the workers a HeartbeatChallenge selects *)

\* The worker is in the map when the i-th pending system event is handled:
\* it was there when the call started, or an earlier event of the pallet has
\* registered it.
KnownAt(pk, i) ==
    \/ pk \in DOMAIN workers
    \/ \E j \in 1..(i - 1) :
          /\ system_events[j].event = "Registered"
          /\ is_pallet(system_events[j].origin)
          /\ system_events[j].pubkey = pk

\* The pending HeartbeatChallenge events of the pallet that reach the worker.
ChallengesFor(pk) ==
    { i \in 1..Len(system_events) :
         /\ system_events[i].event = "HeartbeatChallenge"
         /\ is_pallet(system_events[i].origin)
         /\ KnownAt(pk, i) }

\* blake2_256(pubkey) XOR seed of the i-th pending system event.
Distance(pk, i) == Xor(HashedId(pk), system_events[i].seed)

\* The queue of the worker when the call starts.
QueueBefore(pk) ==
    IF pk \in DOMAIN workers THEN workers[pk].waiting_heartbeats ELSE << >>

\* The call for block b has appended b to the queue of the worker n times.
AppendedTimes(b, pk, n) ==
    workers'[pk].waiting_heartbeats = QueueBefore(pk) \o [ i \in 1..n |-> b ]

-----------------------------------------------------------------------------
(* C36: the chain of the random numbers emitted *)

\* The step is a call of emit_random_number that emits.
Emits ==
    \E b \in 1..MaxBlock : IsEmitRandomNumber(b) /\ b % VRF_INTERVAL = 0

\* C36: last_random_number is all zeros until the first emission; a call of
\* emit_random_number that emits pushes a NewRandomNumber whose previous
\* random number is last_random_number, the random number of the emission
\* before it, and stores the random number emitted; no other step, a call
\* of process_messages with NewRandomNumber events pending included,
\* changes last_random_number.
C36_BeaconChain ==
    /\ [](budget.calls = 0 => last_random_number = ZeroRandom)
    /\ [][ /\ ~Emits => last_random_number' = last_random_number
           /\ Emits =>
                /\ Len(egress') = 1
                /\ egress'[1].topic = "NewRandomNumber"
                /\ egress'[1].body.last_random_number = last_random_number
                /\ egress'[1].body.random_number # last_random_number
                /\ last_random_number' = egress'[1].body.random_number ]_vars

\* After two emissions a call of process_messages has met a NewRandomNumber
\* made with another key and has aborted; last_random_number is still the
\* random number of the second emission, chained to the first.
C36_Witness ==
    /\ last_call.op = "process_messages"
    /\ panicked = RandomPoisoned
    /\ last_random_number
         = next_random_number(MasterKey, 2 * VRF_INTERVAL,
                              next_random_number(MasterKey, VRF_INTERVAL, ZeroRandom))


-----------------------------------------------------------------------------
(* C37: every change of the unresponsive flag is accounted for *)

\* How often the pubkey is in the list.
Times(pk, list) == Cardinality({ i \in 1..Len(list) : list[i] = pk })

\* How often the reports pushed name the worker offline, and recovered.
TimesOffline(pk, pushed) ==
    IF pushed = << >> THEN 0 ELSE Times(pk, pushed[1].body.offline)
TimesRecovered(pk, pushed) ==
    IF pushed = << >> THEN 0 ELSE Times(pk, pushed[1].body.recovered_to_online)

\* A MiningStart of the pallet for the worker is pending.
StartPending(pk) ==
    \E i \in 1..Len(system_events) :
       /\ system_events[i].event = "MiningStart"
       /\ is_pallet(system_events[i].origin)
       /\ system_events[i].pubkey = pk

\* The flag of the worker when the call starts, when the loop has ended
\* (flag) and when the call returns, for a call of block b.
Accounted(pk, before, flag) ==
    /\ flag # before => before /\ ~flag /\ StartPending(pk)
    /\ TimesOffline(pk, egress') = (IF ~flag /\ workers'[pk].unresponsive THEN 1 ELSE 0)
    /\ TimesRecovered(pk, egress') = (IF flag /\ ~workers'[pk].unresponsive THEN 1 ELSE 0)

\* C37: the unresponsive flag of a worker changes only in a call of
\* process_messages that processes a block.  It changes from false to true
\* only in the post-block pass, which then names the worker once in the
\* offline list of the block, and from true to false either in the
\* post-block pass, which then names it once in recovered_to_online, or by
\* a MiningStart, which reports nothing; the lists name no other worker.
\* So a recovered_to_online report or a MiningStart lies between two offline
\* reports of a worker.
C37_FlagAccounted ==
    [][ /\ (\A b \in 1..MaxBlock : ~Processes(b)) =>
             /\ DOMAIN workers' = DOMAIN workers
             /\ \A pk \in DOMAIN workers :
                  workers'[pk].unresponsive = workers[pk].unresponsive
        /\ \A b \in 1..MaxBlock :
             Processes(b) =>
               \A pk \in DOMAIN workers' :
                  Accounted(pk,
                            pk \in DOMAIN workers /\ workers[pk].unresponsive,
                            Drained(BlockInfo(b)).ws[pk].unresponsive) ]_vars

\* A worker that went offline has been started again and is responsive, and
\* no recovery was ever reported for it.
C37_Witness ==
    /\ last_call.op = "process_messages"
    /\ panicked = NoPanic
    /\ Mining(1)
    /\ ~workers[1].unresponsive
    /\ workers[1].last_gk_responsive_event = "EnterUnresponsive"


-----------------------------------------------------------------------------
(* C38: paid and declared offline in one report *)

\* The reports pushed hold a settle entry of the worker, whose heartbeat the
\* call has accepted.
HeartbeatSettled(pk, pushed) ==
    /\ pushed # << >>
    /\ workers'[pk].heartbeat_flag
    /\ \E i \in 1..Len(pushed[1].body.settle) :
          pushed[1].body.settle[i].pubkey = pk

\* C38: a worker with a heartbeat settle entry in the report of a block is
\* not in the offline list of that report and is not slashed in that block.
C38_PaidNotOffline ==
    [][ \A b \in 1..MaxBlock :
          Processes(b) =>
            \A pk \in DOMAIN workers' :
               HeartbeatSettled(pk, egress') =>
                  /\ TimesOffline(pk, egress') = 0
                  /\ ~workers'[pk].unresponsive ]_vars


-----------------------------------------------------------------------------
(* C39: liveness of the offline detection *)

\* Worker 1 is mining and responsive with the Gatekeeper launched, and a block
\* after the window of the challenge of block c can still be processed.
Watched(c) ==
    /\ master_pubkey_on_chain
    /\ panicked = NoPanic
    /\ Mining(1)
    /\ ~workers[1].unresponsive
    /\ last_call.block < LiveMaxBlock
    /\ c + tokenomic_params.heartbeat_window < LiveMaxBlock

\* The challenge blocks with a block after the window in the model.
WatchedBlocks == 1..(LiveMaxBlock - test_params.heartbeat_window - 1)

\* The oldest pending challenge of the watched worker is the one of block c.
OldestPending(c) ==
    /\ Watched(c)
    /\ workers[1].waiting_heartbeats # << >>
    /\ Head(workers[1].waiting_heartbeats) = c

\* Some pending challenge of the watched worker is the one of block c.
SomePending(c) ==
    /\ Watched(c)
    /\ Times(c, workers[1].waiting_heartbeats) > 0

\* The last call has processed a block after the window of the challenge of
\* block c, has marked worker 1 unresponsive and has reported it offline.
ReportedOffline(c) ==
    /\ 1 \in DOMAIN workers
    /\ last_call.op = "process_messages"
    /\ last_call.block - c > tokenomic_params.heartbeat_window
    /\ workers[1].unresponsive
    /\ workers[1].last_gk_responsive_event = "EnterUnresponsive"
    /\ workers[1].last_gk_responsive_event_at_block = last_call.block
    /\ TimesOffline(1, egress) = 1

\* The worker has sent a heartbeat or has stopped mining, or the process has
\* stopped.
Excused ==
    \/ mining_events # << >>
    \/ ~Mining(1)
    \/ panicked # NoPanic

\* The block b processed while worker 1, silent and mining, has the challenge
\* of block c as its oldest one: the worker is reported offline if b is
\* after the window, and stays responsive and unreported if it is not.
DetectedAt(b, c) ==
    OldestPending(c) /\ mining_events = << >> /\ Processes(b) /\ Mining(1)' =>
       IF b - c > tokenomic_params'.heartbeat_window
       THEN ReportedOffline(c)'
       ELSE ~workers'[1].unresponsive /\ TimesOffline(1, egress') = 0

\* The same for any pending challenge of the worker.
DetectedAtSome(b, c) ==
    SomePending(c) /\ mining_events = << >> /\ Processes(b) /\ Mining(1)' =>
       IF b - c > tokenomic_params'.heartbeat_window
       THEN ReportedOffline(c)'
       ELSE ~workers'[1].unresponsive /\ TimesOffline(1, egress') = 0

-----------------------------------------------------------------------------
(* C40: the round trip of the random numbers emitted *)

\* The event is one that emit_random_number has pushed.
Genuine(msg) ==
    /\ msg.event = "NewRandomNumber"
    /\ [ block_number |-> msg.block_number,
         random_number |-> msg.random_number,
         last_random_number |-> msg.last_random_number ]
          \in Emitted(last_random_number)

\* Every NewRandomNumber of a gatekeeper in the inbox is one that
\* emit_random_number has pushed.
GatekeepersDeliverEmitted ==
    \A i \in 1..Len(gatekeeper_events) :
       is_gatekeeper(gatekeeper_events[i].origin) => Genuine(gatekeeper_events[i])

\* C40: the events emit_random_number pushes are the events of the chain of
\* random numbers stored.  A call of process_messages that processes the
\* block with such events of gatekeepers in the inbox, in any order and any
\* number, whatever last_random_number is, does not abort and leaves what it
\* leaves with an empty gatekeeper inbox; NewRandomNumber events of another
\* origin in the inbox, emitted ones or not, do not change that.
C40_RoundTrip ==
    [][ /\ Emits =>
             Emitted(last_random_number')
               = Emitted(last_random_number) \cup { egress'[1].body }
        /\ \A b \in 1..MaxBlock :
             /\ IsProcessMessages(b)
             /\ master_pubkey_on_chain
             /\ OnlyRandomNumbersPending
             /\ GatekeepersDeliverEmitted
             => /\ panicked' = NoPanic
                /\ gatekeeper_events' = << >>
                /\ LeftAs(WithoutGatekeeperEvents(b)) ]_vars

\* After two emissions three events were delivered, and a call of
\* process_messages has processed them without aborting.
C40_Witness ==
    /\ last_call.op = "process_messages"
    /\ master_pubkey_on_chain
    /\ panicked = NoPanic
    /\ budget.msgs = RoundMaxMsgs
    /\ gatekeeper_events = << >>
    /\ Cardinality(Emitted(last_random_number)) = 2

=============================================================================
